---- MODULE Spec2Model ----
(***************************************************************************)
(* Model of the meeting protocol recorder (src/protocol_agent.py):         *)
(* the protocol store kept by MultiParticipantProtocol (two output sinks,  *)
(* statistics), the per-participant session supervision of the same class, *)
(* and the ProtocolRecorder agent that feeds it.                           *)
(*                                                                         *)
(* Three specifications share the variables:                               *)
(*   SpecStore    the store's operations called one after another, in any  *)
(*                order (initialize, the two appends, finalize);           *)
(*   SpecThreads  the appends and finalize called by concurrent threads,   *)
(*                one statement per step;                                  *)
(*   Spec         the supervisor under asyncio's cooperative scheduling,   *)
(*                one step per handler run between two awaits.             *)
(*                                                                         *)
(* Handlers are operators on the object's state S (a record of its         *)
(* fields) giving the state they leave; an action commits one handler run. *)
(***************************************************************************)
EXTENDS Integers, Sequences, FiniteSets, TLC

\* ------------------------------------------------------------------ bounds
\* Number of store operations called in SpecStore.
MaxCalls == 4
\* Number of store operations each thread calls in SpecThreads.
MaxThreadCalls == 2
\* Number of session-start tasks created in Spec.
MaxSessions == 2
\* Number of participant-connected notifications in Spec.
MaxJoins == 2
\* Number of completed utterances with text in Spec.
MaxUtterances == 1
\* Number of clock ticks in Spec.
MaxTicks == 2
\* Number of core records of the stream given to the repair in SpecRepair.
MaxCore == 2
\* Number of lines of the log given to the repair in SpecRepair.
MaxLog == 2
\* Number of runs of the repair in SpecRepair.
MaxRepairRuns == 2

Participants == {"A", "B"}
Threads == {"t1", "t2"}

\* ------------------------------------------------------------------- text
\* A text is a sequence of characters; these are the characters of the model.
Whitespace == {" ", "\t"}

\* The texts of the utterances the runtime reports.
Utterances == {<< >>, <<" ", "\t">>, <<" ", "a", " ", "b">>}

\* new_message: text_content is a text or None.
Messages == {[has_text |-> FALSE, text |-> << >>]} \cup {[has_text |-> TRUE, text |-> u] : u \in Utterances}

NoTime == -1
NoText == << >>

\* datetime.now().strftime("%H:%M:%S"): the time of day, the date dropped.
SecondsPerDay == 86400
get_timestamp(t) == t % SecondsPerDay

RECURSIVE lstrip(_)
lstrip(s) == IF s # << >> /\ Head(s) \in Whitespace THEN lstrip(Tail(s)) ELSE s

RECURSIVE rstrip(_)
rstrip(s) == IF s # << >> /\ s[Len(s)] \in Whitespace THEN rstrip(SubSeq(s, 1, Len(s) - 1)) ELSE s

\* str.strip()
strip(s) == rstrip(lstrip(s))

RECURSIVE SplitAcc(_, _, _)
SplitAcc(s, cur, acc) ==
    IF s = << >> THEN (IF cur = << >> THEN acc ELSE Append(acc, cur))
    ELSE IF Head(s) \in Whitespace
         THEN SplitAcc(Tail(s), << >>, IF cur = << >> THEN acc ELSE Append(acc, cur))
         ELSE SplitAcc(Tail(s), Append(cur, Head(s)), acc)

\* str.split(): the words between runs of whitespace.
split(s) == SplitAcc(s, << >>, << >>)

\* -------------------------------------------------------------- variables
VARIABLES
    config,              \* ProtocolConfig: output_format, enable_statistics, idle_timeout_minutes
    now,                 \* the wall clock, in seconds
    initialized,         \* _initialized
    txt_handle,          \* _txt_handle: "None" or "open"
    json_handle,         \* _json_handle: "None" or "open"
    files,               \* the three files on disk: exists, data (what a crash keeps)
    buffers,             \* what each open handle has written and not flushed yet
    stats,               \* self.stats (ProtocolStats)
    write_lock,          \* _write_lock: "free" or the thread holding it
    sink_opens,          \* handles opened so far on each sink
    sink_closes,         \* handles closed so far on each sink
    last_speech_time,    \* _last_speech_time, a dict in insertion order
    api_calls,           \* the store operations called so far, in order (SpecStore)
    thr,                 \* each thread's operation and position (SpecThreads)
    ep_pc,               \* where the entrypoint coroutine is
    remote_participants, \* ctx.room.remote_participants, in the order they joined
    sessions,            \* _sessions: participant identity -> session
    agent_sessions,      \* the AgentSession objects created: participant, state
    tasks,               \* _tasks: the session-start and session-close tasks not done yet, as created
    task_seq,            \* session-start tasks created so far
    all_idle,            \* _all_idle
    idle_pc,             \* where the idle-check task is
    idle_info,           \* idle_info: the identities the idle check has still to close
    idle_wake,           \* when the idle check's sleep ends
    idle_closing,        \* the session whose close the idle check awaits (0: none)
    notified,            \* per participant, the notifications the runtime delivered
    listeners,           \* the room's notifications the supervisor's handlers are attached to
    close_pc,            \* where aclose is
    close_pending,       \* the sessions whose close aclose has gathered and still awaits
    close_log,           \* the steps aclose has taken, in order
    jsonl_file,          \* JSONL_FILE: the records of the structured stream the repair reads
    log_file,            \* LOG_FILE: the lines of the log the repair reads
    repaired_jsonl_file, \* REPAIRED_JSONL_FILE: the records the repair wrote
    repair_runs          \* the runs of the repair so far

storeVars == <<initialized, txt_handle, json_handle, files, buffers, stats, write_lock, sink_opens, sink_closes>>
closeVars == <<close_pc, close_pending, close_log>>
supVars == <<ep_pc, remote_participants, sessions, agent_sessions, tasks, task_seq, all_idle, idle_pc, idle_info, idle_wake, idle_closing, notified, listeners, closeVars>>
repairVars == <<jsonl_file, log_file, repaired_jsonl_file, repair_runs>>
vars == <<config, now, storeVars, last_speech_time, api_calls, thr, supVars, repairVars>>

\* The fields of the MultiParticipantProtocol object.
State == [initialized |-> initialized, txt_handle |-> txt_handle, json_handle |-> json_handle, files |-> files, buffers |-> buffers, stats |-> stats, sink_opens |-> sink_opens, sink_closes |-> sink_closes, last_speech_time |-> last_speech_time, sessions |-> sessions, agent_sessions |-> agent_sessions, tasks |-> tasks, task_seq |-> task_seq, all_idle |-> all_idle]

\* The object is left in state S.
Commit(S) ==
    /\ initialized' = S.initialized
    /\ txt_handle' = S.txt_handle
    /\ json_handle' = S.json_handle
    /\ files' = S.files
    /\ buffers' = S.buffers
    /\ stats' = S.stats
    /\ sink_opens' = S.sink_opens
    /\ sink_closes' = S.sink_closes
    /\ last_speech_time' = S.last_speech_time
    /\ sessions' = S.sessions
    /\ agent_sessions' = S.agent_sessions
    /\ tasks' = S.tasks
    /\ task_seq' = S.task_seq
    /\ all_idle' = S.all_idle

\* ----------------------------------------------------------- configuration
OutputFormats == {"txt", "json", "both"}

Configs == [output_format : OutputFormats, enable_statistics : BOOLEAN, idle_timeout_minutes : {1}]

TxtEnabled == config.output_format \in {"txt", "both"}
JsonEnabled == config.output_format \in {"json", "both"}

\* ------------------------------------------------------------------ dicts
\* dict item assignment d[k] = v, for a dict whose order is not looked at.
DictSet(d, k, v) == [x \in (DOMAIN d) \cup {k} |-> IF x = k THEN v ELSE d[x]]
\* dict.pop(k)
DictPop(d, k) == [x \in (DOMAIN d) \ {k} |-> d[x]]

\* A dict whose order is looked at is the sequence of its items, in insertion order.
OdKeys(d) == [i \in 1..Len(d) |-> d[i].key]
OdHas(d, k) == \E i \in 1..Len(d) : d[i].key = k
OdGet(d, k) == d[CHOOSE i \in 1..Len(d) : d[i].key = k].value
OdSet(d, k, v) == IF OdHas(d, k) THEN [i \in 1..Len(d) |-> IF d[i].key = k THEN [key |-> k, value |-> v] ELSE d[i]] ELSE Append(d, [key |-> k, value |-> v])

\* ---------------------------------------------------------------- records
\* What is written is a sequence of chunks; a line written by one write call
\* is one "whole" chunk, a line written in two pieces a "head" and a "tail".
Chunk(line, part) == [line |-> line, part |-> part]

TxtHeader == [fmt |-> "header", room |-> "room", stt_provider |-> "deepgram"]
JsonHeader(t) == [type |-> "header", room |-> "room", started_at |-> get_timestamp(t), stt_provider |-> "deepgram"]

TxtTranscriptLine(timestamp, participant, text) == [fmt |-> "transcript", timestamp |-> timestamp, participant |-> participant, text |-> text]
JsonTranscriptEntry(timestamp, participant, text) == [type |-> "transcript", timestamp |-> timestamp, participant |-> participant, text |-> text, word_count |-> Len(split(text))]

\* Any event type but joined, idle_timeout and resumed is rendered as "left".
TxtEventFmt(event_type) == IF event_type \in {"joined", "idle_timeout", "resumed"} THEN event_type ELSE "left"
TxtEventLine(timestamp, participant, event_type) == [fmt |-> TxtEventFmt(event_type), timestamp |-> timestamp, participant |-> participant]
JsonEventEntry(timestamp, participant, event_type) == [type |-> "event", timestamp |-> timestamp, participant |-> participant, event |-> event_type]

TxtFooter(st) == [fmt |-> "footer", statistics |-> IF config.enable_statistics THEN <<[total_participants |-> Cardinality(DOMAIN st.participants), total_turns |-> st.total_turns, total_words |-> st.total_words, participants |-> [p \in DOMAIN st.participants |-> [word_count |-> st.participants[p].word_count, turn_count |-> st.participants[p].turn_count]]]>> ELSE << >>]
JsonFooter(t) == [type |-> "footer", ended_at |-> get_timestamp(t)]

\* ------------------------------------------------------------- statistics
ParticipantStats(joined_at) == [joined_at |-> joined_at, left_at |-> NoTime, word_count |-> 0, turn_count |-> 0, characters |-> 0]

ProtocolStats(t) == [room_name |-> "room", started_at |-> get_timestamp(t), ended_at |-> NoTime, participants |-> << >>, total_turns |-> 0, total_words |-> 0]

\* The turn recorded with the store-wide word total left as it was.
record_speech_WordTotalKept(st, participant_identity, text) ==
    LET ps == IF participant_identity \in DOMAIN st.participants
              THEN st.participants[participant_identity]
              ELSE ParticipantStats(NoTime)
        word_count == Len(split(text))
        ps2 == [ps EXCEPT !.word_count = @ + word_count, !.turn_count = @ + 1, !.characters = @ + Len(text)]
    IN [st EXCEPT !.participants = DictSet(st.participants, participant_identity, ps2),
                  !.total_turns = @ + 1]

record_speech(st, participant_identity, text) ==
    LET ps == IF participant_identity \in DOMAIN st.participants
              THEN st.participants[participant_identity]
              ELSE ParticipantStats(NoTime)
        word_count == Len(split(text))
        ps2 == [ps EXCEPT !.word_count = @ + word_count, !.turn_count = @ + 1, !.characters = @ + Len(text)]
    IN [st EXCEPT !.participants = DictSet(st.participants, participant_identity, ps2),
                  !.total_turns = @ + 1,
                  !.total_words = @ + word_count]

\* -------------------------------------------------------------- file model
NoFile == [exists |-> FALSE, data |-> << >>]

\* open(path, "w") ... write ... close: the file holds exactly what was written.
CreateFile(fs, name, line) == [fs EXCEPT ![name] = [exists |-> TRUE, data |-> <<Chunk(line, "whole")>>]]

\* handle.write(line): the line goes to the handle's buffer.
HandleWrite(bufs, name, line) == [bufs EXCEPT ![name] = Append(@, Chunk(line, "whole"))]

\* handle.flush(), and the flush of handle.close(): the buffer reaches the disk.
FlushedFiles(fs, bufs, name) == [fs EXCEPT ![name].data = @ \o bufs[name]]
FlushedBuffers(bufs, name) == [bufs EXCEPT ![name] = << >>]

\* The lines of a sink, chunk by chunk.
Lines(data) == [i \in 1..Len(data) |-> data[i].line]

\* ------------------------------------------------- the store's operations
initialize_NoGuard(S) ==
    LET f1 == IF TxtEnabled THEN CreateFile(S.files, "txt", TxtHeader) ELSE S.files
        f2 == IF JsonEnabled THEN CreateFile(f1, "json", JsonHeader(now)) ELSE f1
    IN [S EXCEPT !.initialized = TRUE,
                 !.files = f2,
                 !.txt_handle = IF TxtEnabled THEN "open" ELSE @,
                 !.json_handle = IF JsonEnabled THEN "open" ELSE @,
                 !.sink_opens = [s \in {"txt", "json"} |-> @[s] + (IF (s = "txt" /\ TxtEnabled) \/ (s = "json" /\ JsonEnabled) THEN 1 ELSE 0)]]

initialize(S) ==
    IF S.initialized THEN S
    ELSE LET f1 == IF TxtEnabled THEN CreateFile(S.files, "txt", TxtHeader) ELSE S.files
             f2 == IF JsonEnabled THEN CreateFile(f1, "json", JsonHeader(now)) ELSE f1
         IN [S EXCEPT !.initialized = TRUE,
                      !.files = f2,
                      !.txt_handle = IF TxtEnabled THEN "open" ELSE @,
                      !.json_handle = IF JsonEnabled THEN "open" ELSE @,
                      !.sink_opens = [s \in {"txt", "json"} |-> @[s] + (IF (s = "txt" /\ TxtEnabled) \/ (s = "json" /\ JsonEnabled) THEN 1 ELSE 0)]]

\* One append with the lock held: the line is written and flushed on each
\* sink whose handle is set (lines 669-672 and 675-684).
Appended(S, txt_line, json_entry) ==
    LET b1 == IF S.txt_handle = "open" THEN HandleWrite(S.buffers, "txt", txt_line) ELSE S.buffers
        f1 == IF S.txt_handle = "open" THEN FlushedFiles(S.files, b1, "txt") ELSE S.files
        b2 == IF S.txt_handle = "open" THEN FlushedBuffers(b1, "txt") ELSE b1
        b3 == IF S.json_handle = "open" THEN HandleWrite(b2, "json", json_entry) ELSE b2
        f2 == IF S.json_handle = "open" THEN FlushedFiles(f1, b3, "json") ELSE f1
        b4 == IF S.json_handle = "open" THEN FlushedBuffers(b3, "json") ELSE b3
    IN [S EXCEPT !.files = f2, !.buffers = b4]

write_transcript(S, timestamp, participant, text) ==
    LET S1 == [S EXCEPT !.last_speech_time = OdSet(@, participant, now),
                        !.stats = IF config.enable_statistics THEN record_speech(@, participant, text) ELSE @]
    IN Appended(S1, TxtTranscriptLine(timestamp, participant, text), JsonTranscriptEntry(timestamp, participant, text))

_write_participant_event(S, timestamp, participant, event_type) ==
    Appended(S, TxtEventLine(timestamp, participant, event_type), JsonEventEntry(timestamp, participant, event_type))

_finalize_protocol_files(S) ==
    LET b1 == IF S.txt_handle = "open" THEN HandleWrite(S.buffers, "txt", TxtFooter(S.stats)) ELSE S.buffers
        f1 == IF S.txt_handle = "open" THEN FlushedFiles(S.files, b1, "txt") ELSE S.files
        b2 == IF S.txt_handle = "open" THEN FlushedBuffers(b1, "txt") ELSE b1
        b3 == IF S.json_handle = "open" THEN HandleWrite(b2, "json", JsonFooter(now)) ELSE b2
        f2 == IF S.json_handle = "open" THEN FlushedFiles(f1, b3, "json") ELSE f1
        b4 == IF S.json_handle = "open" THEN FlushedBuffers(b3, "json") ELSE b3
        f3 == IF config.enable_statistics THEN [f2 EXCEPT !["stats"] = [exists |-> TRUE, data |-> <<Chunk(S.stats, "whole")>>]] ELSE f2
    IN [S EXCEPT !.files = f3,
                 !.buffers = b4,
                 !.sink_closes = [s \in {"txt", "json"} |-> @[s] + (IF (s = "txt" /\ S.txt_handle = "open") \/ (s = "json" /\ S.json_handle = "open") THEN 1 ELSE 0)],
                 !.txt_handle = "None",
                 !.json_handle = "None"]

\* ------------------------------------------------------------- the object
\* MultiParticipantProtocol.__init__, and no supervisor activity.
NewStore ==
    /\ initialized = FALSE
    /\ txt_handle = "None"
    /\ json_handle = "None"
    /\ files = [f \in {"txt", "json", "stats"} |-> NoFile]
    /\ buffers = [s \in {"txt", "json"} |-> << >>]
    /\ stats = ProtocolStats(now)
    /\ write_lock = "free"
    /\ sink_opens = [s \in {"txt", "json"} |-> 0]
    /\ sink_closes = [s \in {"txt", "json"} |-> 0]
    /\ last_speech_time = << >>

NewSupervisor ==
    /\ sessions = << >>
    /\ agent_sessions = << >>
    /\ tasks = << >>
    /\ task_seq = 0
    /\ all_idle = FALSE
    /\ idle_pc = "none"
    /\ idle_info = << >>
    /\ idle_wake = 0
    /\ idle_closing = 0
    /\ notified = [p \in Participants |-> << >>]
    /\ listeners = {}
    /\ close_pc = "none"
    /\ close_pending = {}
    /\ close_log = << >>

\* No repair is run.
NoRepair ==
    /\ jsonl_file = << >>
    /\ log_file = << >>
    /\ repaired_jsonl_file = NoFile
    /\ repair_runs = 0

\* --------------------------------------------------------------- SpecStore
\* The arguments the callers pass.
StoreTimestamps == {get_timestamp(36000)}
StoreTexts == {<<"a">>, <<" ", "a", " ", "b">>}
EventTypes == {"joined", "left", "idle_timeout", "resumed"}

InitStore ==
    /\ config \in Configs
    /\ now = 36000
    /\ NewStore
    /\ NewSupervisor
    /\ NoRepair
    /\ ep_pc = "boot"
    /\ remote_participants = << >>
    /\ api_calls = << >>
    /\ thr = [t \in Threads |-> [pc |-> "idle"]]

storeFrame == <<config, now, thr, write_lock, ep_pc, remote_participants, idle_pc, idle_info, idle_wake, idle_closing, notified, listeners, closeVars, repairVars>>

CallInitialize ==
    /\ Len(api_calls) < MaxCalls
    /\ api_calls' = Append(api_calls, "initialize")
    /\ write_lock = "free"
    /\ Commit(initialize(State))
    /\ UNCHANGED storeFrame

CallWriteTranscript ==
    /\ Len(api_calls) < MaxCalls
    /\ api_calls' = Append(api_calls, "write_transcript")
    /\ write_lock = "free"
    /\ \E timestamp \in StoreTimestamps, participant \in Participants, text \in StoreTexts : Commit(write_transcript(State, timestamp, participant, text))
    /\ UNCHANGED storeFrame

CallWriteParticipantEvent ==
    /\ Len(api_calls) < MaxCalls
    /\ api_calls' = Append(api_calls, "_write_participant_event")
    /\ write_lock = "free"
    /\ \E timestamp \in StoreTimestamps, participant \in Participants, event_type \in EventTypes : Commit(_write_participant_event(State, timestamp, participant, event_type))
    /\ UNCHANGED storeFrame

CallFinalize ==
    /\ Len(api_calls) < MaxCalls
    /\ api_calls' = Append(api_calls, "_finalize_protocol_files")
    /\ write_lock = "free"
    /\ Commit(_finalize_protocol_files(State))
    /\ UNCHANGED storeFrame

NextStore == CallInitialize \/ CallWriteTranscript \/ CallWriteParticipantEvent \/ CallFinalize

SpecStore == InitStore /\ [][NextStore]_vars

\* ------------------------------------------------------ claims on the store
JsonLines == Lines(files["json"].data)
TxtLines == Lines(files["txt"].data)
IsHeader(e) == e.type = "header"
IsFooter(e) == e.type = "footer"
Called(op) == {i \in 1..Len(api_calls) : api_calls[i] = op}
\* Some sink of the store has been closed: finalize ran on the initialized store.
Finalized == sink_closes["txt"] + sink_closes["json"] > 0

C8_Shape ==
    /\ (initialized /\ JsonEnabled) => (files["json"].exists /\ Len(JsonLines) >= 1)
    /\ \A i \in 1..Len(JsonLines) : IsHeader(JsonLines[i]) <=> i = 1
    /\ \A i \in 1..Len(JsonLines) : IsFooter(JsonLines[i]) => i = Len(JsonLines)
    /\ \A s \in {"txt", "json"} : sink_opens[s] <= 1 /\ sink_closes[s] <= sink_opens[s]

C8_SecondCallsWriteNothing ==
    /\ (initialized /\ CallInitialize) => UNCHANGED <<files, buffers, txt_handle, json_handle>>
    /\ (Finalized /\ CallFinalize) => UNCHANGED <<files["txt"], files["json"], buffers, txt_handle, json_handle>>

C9_FinalizeUninitializedNoOp == [][(~initialized /\ CallFinalize) => UNCHANGED <<storeVars, last_speech_time>>]_vars

\* C10: an append issued after finalize writes nothing to either sink,
\* reopens no sink and leaves the store's state, statistics included,
\* unchanged.
C10_AppendAfterFinalizeNoOp == [][(Finalized /\ (CallWriteTranscript \/ CallWriteParticipantEvent)) => UNCHANGED storeVars]_vars

\* ------------------------------------------------------------- SpecThreads
\* The appends and finalize called from concurrent threads on an initialized
\* store. A thread runs one statement per step; handle.write(line) puts the
\* line into the handle's buffer in two pieces, so that writers that are not
\* serialized could interleave within a line.
NoLine == [fmt |-> "none"]
NoCall == [pc |-> "idle", op |-> "none", line |-> NoLine, timestamp |-> NoTime, participant |-> "", text |-> NoText, event_type |-> "", saw_txt |-> FALSE, saw_json |-> FALSE, calls |-> 0]

ThreadParticipant(t) == IF t = "t1" THEN "A" ELSE "B"
ThreadTexts == {<<"a">>}
ThreadEventTypes == {"left"}

ThreadTxtLine(t) ==
    IF thr[t].op = "write_transcript" THEN TxtTranscriptLine(thr[t].timestamp, thr[t].participant, thr[t].text)
    ELSE IF thr[t].op = "_write_participant_event" THEN TxtEventLine(thr[t].timestamp, thr[t].participant, thr[t].event_type)
    ELSE TxtFooter(stats)

ThreadJsonEntry(t) ==
    IF thr[t].op = "write_transcript" THEN JsonTranscriptEntry(thr[t].timestamp, thr[t].participant, thr[t].text)
    ELSE IF thr[t].op = "_write_participant_event" THEN JsonEventEntry(thr[t].timestamp, thr[t].participant, thr[t].event_type)
    ELSE JsonFooter(now)

InitThreads ==
    /\ config \in Configs
    /\ now = 36000
    /\ write_lock = "free"
    /\ \E S \in {initialize([initialized |-> FALSE, txt_handle |-> "None", json_handle |-> "None", files |-> [f \in {"txt", "json", "stats"} |-> NoFile], buffers |-> [s \in {"txt", "json"} |-> << >>], stats |-> ProtocolStats(now), sink_opens |-> [s \in {"txt", "json"} |-> 0], sink_closes |-> [s \in {"txt", "json"} |-> 0], last_speech_time |-> << >>])} :
          /\ initialized = S.initialized
          /\ txt_handle = S.txt_handle
          /\ json_handle = S.json_handle
          /\ files = S.files
          /\ buffers = S.buffers
          /\ stats = S.stats
          /\ sink_opens = S.sink_opens
          /\ sink_closes = S.sink_closes
          /\ last_speech_time = S.last_speech_time
    /\ NewSupervisor
    /\ NoRepair
    /\ ep_pc = "boot"
    /\ remote_participants = << >>
    /\ api_calls = << >>
    /\ thr = [t \in Threads |-> NoCall]

threadFrame == <<config, now, api_calls, initialized, sink_opens, supVars, repairVars>>

ThreadCallWriteTranscript(t) ==
    /\ thr[t].pc = "idle" /\ thr[t].calls < MaxThreadCalls
    /\ \E text \in ThreadTexts : thr' = [thr EXCEPT ![t] = [NoCall EXCEPT !.pc = "last_speech", !.op = "write_transcript", !.timestamp = get_timestamp(now), !.participant = ThreadParticipant(t), !.text = text, !.calls = thr[t].calls]]
    /\ UNCHANGED <<threadFrame, txt_handle, json_handle, files, buffers, stats, write_lock, sink_closes, last_speech_time>>

ThreadCallWriteParticipantEvent(t) ==
    /\ thr[t].pc = "idle" /\ thr[t].calls < MaxThreadCalls
    /\ \E event_type \in ThreadEventTypes : thr' = [thr EXCEPT ![t] = [NoCall EXCEPT !.pc = "lock", !.op = "_write_participant_event", !.timestamp = get_timestamp(now), !.participant = ThreadParticipant(t), !.event_type = event_type, !.calls = thr[t].calls]]
    /\ UNCHANGED <<threadFrame, txt_handle, json_handle, files, buffers, stats, write_lock, sink_closes, last_speech_time>>

ThreadCallFinalize(t) ==
    /\ thr[t].pc = "idle" /\ thr[t].calls < MaxThreadCalls
    /\ thr' = [thr EXCEPT ![t] = [NoCall EXCEPT !.pc = "lock", !.op = "_finalize_protocol_files", !.calls = thr[t].calls]]
    /\ UNCHANGED <<threadFrame, txt_handle, json_handle, files, buffers, stats, write_lock, sink_closes, last_speech_time>>

\* write_transcript, line 661
WtLastSpeech(t) ==
    /\ thr[t].pc = "last_speech"
    /\ last_speech_time' = OdSet(last_speech_time, thr[t].participant, now)
    /\ thr' = [thr EXCEPT ![t].pc = "stats"]
    /\ UNCHANGED <<threadFrame, txt_handle, json_handle, files, buffers, stats, write_lock, sink_closes>>

\* write_transcript, lines 664-665
WtStats(t) ==
    /\ thr[t].pc = "stats"
    /\ stats' = IF config.enable_statistics THEN record_speech(stats, thr[t].participant, thr[t].text) ELSE stats
    /\ thr' = [thr EXCEPT ![t].pc = "lock"]
    /\ UNCHANGED <<threadFrame, txt_handle, json_handle, files, buffers, write_lock, sink_closes, last_speech_time>>

Acquire_NoWait(t) ==
    /\ thr[t].pc = "lock"
    /\ write_lock' = t
    /\ thr' = [thr EXCEPT ![t].pc = "txt", ![t].saw_txt = (txt_handle = "open"), ![t].saw_json = (json_handle = "open")]
    /\ UNCHANGED <<threadFrame, txt_handle, json_handle, files, buffers, stats, sink_closes, last_speech_time>>

\* with self._write_lock: the thread waits until the lock is free.
Acquire(t) ==
    /\ thr[t].pc = "lock"
    /\ write_lock = "free"
    /\ write_lock' = t
    /\ thr' = [thr EXCEPT ![t].pc = "txt", ![t].saw_txt = (txt_handle = "open"), ![t].saw_json = (json_handle = "open")]
    /\ UNCHANGED <<threadFrame, txt_handle, json_handle, files, buffers, stats, sink_closes, last_speech_time>>

\* if self._txt_handle: the line is formatted (the footer from the statistics
\* as they are now); self._txt_handle.write(line), first piece
TxtWriteHead(t) ==
    /\ thr[t].pc = "txt"
    /\ IF txt_handle = "open"
       THEN /\ buffers' = [buffers EXCEPT !["txt"] = Append(@, Chunk(ThreadTxtLine(t), "head"))]
            /\ thr' = [thr EXCEPT ![t].pc = "txt_tail", ![t].line = ThreadTxtLine(t)]
       ELSE /\ thr' = [thr EXCEPT ![t].pc = "json"]
            /\ UNCHANGED buffers
    /\ UNCHANGED <<threadFrame, txt_handle, json_handle, files, stats, write_lock, sink_closes, last_speech_time>>

TxtWriteTail(t) ==
    /\ thr[t].pc = "txt_tail"
    /\ buffers' = [buffers EXCEPT !["txt"] = Append(@, Chunk(thr[t].line, "tail"))]
    /\ thr' = [thr EXCEPT ![t].pc = IF thr[t].op = "_finalize_protocol_files" THEN "txt_close" ELSE "txt_flush"]
    /\ UNCHANGED <<threadFrame, txt_handle, json_handle, files, stats, write_lock, sink_closes, last_speech_time>>

TxtFlush_Skipped(t) ==
    /\ thr[t].pc = "txt_flush"
    /\ thr' = [thr EXCEPT ![t].pc = "json"]
    /\ UNCHANGED <<threadFrame, txt_handle, json_handle, files, buffers, stats, write_lock, sink_closes, last_speech_time>>

\* self._txt_handle.flush()
TxtFlush(t) ==
    /\ thr[t].pc = "txt_flush"
    /\ files' = FlushedFiles(files, buffers, "txt")
    /\ buffers' = FlushedBuffers(buffers, "txt")
    /\ thr' = [thr EXCEPT ![t].pc = "json"]
    /\ UNCHANGED <<threadFrame, txt_handle, json_handle, stats, write_lock, sink_closes, last_speech_time>>

\* self._txt_handle.close(); self._txt_handle = None
TxtClose(t) ==
    /\ thr[t].pc = "txt_close"
    /\ files' = FlushedFiles(files, buffers, "txt")
    /\ buffers' = FlushedBuffers(buffers, "txt")
    /\ txt_handle' = "None"
    /\ sink_closes' = [sink_closes EXCEPT !["txt"] = @ + 1]
    /\ thr' = [thr EXCEPT ![t].pc = "json"]
    /\ UNCHANGED <<threadFrame, json_handle, stats, write_lock, last_speech_time>>

\* if self._json_handle: ... self._json_handle.write(entry), first piece
JsonWriteHead(t) ==
    /\ thr[t].pc = "json"
    /\ IF json_handle = "open"
       THEN /\ buffers' = [buffers EXCEPT !["json"] = Append(@, Chunk(ThreadJsonEntry(t), "head"))]
            /\ thr' = [thr EXCEPT ![t].pc = "json_tail", ![t].line = ThreadJsonEntry(t)]
       ELSE /\ thr' = [thr EXCEPT ![t].pc = IF thr[t].op = "_finalize_protocol_files" THEN "stats_file" ELSE "unlock"]
            /\ UNCHANGED buffers
    /\ UNCHANGED <<threadFrame, txt_handle, json_handle, files, stats, write_lock, sink_closes, last_speech_time>>

JsonWriteTail(t) ==
    /\ thr[t].pc = "json_tail"
    /\ buffers' = [buffers EXCEPT !["json"] = Append(@, Chunk(thr[t].line, "tail"))]
    /\ thr' = [thr EXCEPT ![t].pc = IF thr[t].op = "_finalize_protocol_files" THEN "json_close" ELSE "json_flush"]
    /\ UNCHANGED <<threadFrame, txt_handle, json_handle, files, stats, write_lock, sink_closes, last_speech_time>>

\* self._json_handle.flush()
JsonFlush(t) ==
    /\ thr[t].pc = "json_flush"
    /\ files' = FlushedFiles(files, buffers, "json")
    /\ buffers' = FlushedBuffers(buffers, "json")
    /\ thr' = [thr EXCEPT ![t].pc = "unlock"]
    /\ UNCHANGED <<threadFrame, txt_handle, json_handle, stats, write_lock, sink_closes, last_speech_time>>

\* self._json_handle.close(); self._json_handle = None
JsonClose(t) ==
    /\ thr[t].pc = "json_close"
    /\ files' = FlushedFiles(files, buffers, "json")
    /\ buffers' = FlushedBuffers(buffers, "json")
    /\ json_handle' = "None"
    /\ sink_closes' = [sink_closes EXCEPT !["json"] = @ + 1]
    /\ thr' = [thr EXCEPT ![t].pc = "stats_file"]
    /\ UNCHANGED <<threadFrame, txt_handle, stats, write_lock, last_speech_time>>

\* _finalize_protocol_files, lines 525-527
FinStatsFile(t) ==
    /\ thr[t].pc = "stats_file"
    /\ files' = IF config.enable_statistics THEN [files EXCEPT !["stats"] = [exists |-> TRUE, data |-> <<Chunk(stats, "whole")>>]] ELSE files
    /\ thr' = [thr EXCEPT ![t].pc = "unlock"]
    /\ UNCHANGED <<threadFrame, txt_handle, json_handle, buffers, stats, write_lock, sink_closes, last_speech_time>>

\* The with block is left and the operation returns.
Release(t) ==
    /\ thr[t].pc = "unlock"
    /\ write_lock' = "free"
    /\ thr' = [thr EXCEPT ![t].pc = "idle", ![t].calls = @ + 1]
    /\ UNCHANGED <<threadFrame, txt_handle, json_handle, files, buffers, stats, sink_closes, last_speech_time>>

NextThreads ==
    \E t \in Threads :
        \/ ThreadCallWriteTranscript(t)
        \/ ThreadCallWriteParticipantEvent(t)
        \/ ThreadCallFinalize(t)
        \/ WtLastSpeech(t)
        \/ WtStats(t)
        \/ Acquire(t)
        \/ TxtWriteHead(t)
        \/ TxtWriteTail(t)
        \/ TxtFlush(t)
        \/ TxtClose(t)
        \/ JsonWriteHead(t)
        \/ JsonWriteTail(t)
        \/ JsonFlush(t)
        \/ JsonClose(t)
        \/ FinStatsFile(t)
        \/ Release(t)

SpecThreads == InitThreads /\ [][NextThreads]_vars

\* ------------------------------------------- claims on concurrent appends
Sinks == {"txt", "json"}
\* All that was written to a sink, flushed or not, in the order written.
SinkData(s) == files[s].data \o buffers[s]
\* The positions of a thread that run with the lock held.
CriticalPcs == {"txt", "txt_tail", "txt_flush", "txt_close", "json", "json_tail", "json_flush", "json_close", "stats_file", "unlock"}
\* A thread has written the first piece of a line to the sink and not the second.
MidLine(t, s) == thr[t].pc = (IF s = "txt" THEN "txt_tail" ELSE "json_tail")
\* A thread has written to the sink and not flushed or closed it yet.
Unflushed(t, s) == thr[t].pc \in (IF s = "txt" THEN {"txt_tail", "txt_flush", "txt_close"} ELSE {"json_tail", "json_flush", "json_close"})

Contiguous(s) ==
    LET d == SinkData(s)
    IN \A i \in 1..Len(d) :
        /\ d[i].part = "head" =>
              \/ i < Len(d) /\ d[i + 1].part = "tail" /\ d[i + 1].line = d[i].line
              \/ i = Len(d) /\ \E t \in Threads : MidLine(t, s) /\ thr[t].line = d[i].line
        /\ d[i].part = "tail" => i > 1 /\ d[i - 1].part = "head" /\ d[i - 1].line = d[i].line

\* C6: under any interleaving of concurrent appends and finalize, every line
\* of either sink is written contiguously (no line holds pieces of two
\* records), and the text line and the structured line of one record are
\* written within one critical section of the store's lock.
C6_LinesContiguous ==
    /\ \A s \in Sinks : Contiguous(s)
    /\ \A t \in Threads : thr[t].pc \in CriticalPcs => write_lock = t

\* One thread is in the middle of a structured line while the other waits
\* for the lock with its own record.
C6_Witness ==
    /\ config.output_format = "both"
    /\ thr["t1"].pc = "json_tail" /\ thr["t1"].op = "write_transcript"
    /\ thr["t2"].pc = "lock" /\ thr["t2"].op = "_write_participant_event"
    /\ thr["t2"].calls = 1

IsAppend(t) == thr[t].op \in {"write_transcript", "_write_participant_event"}
Returned(t) == thr[t].pc = "idle" /\ thr[t].op # "none"
AppendTxtLine(t) == IF thr[t].op = "write_transcript" THEN TxtTranscriptLine(thr[t].timestamp, thr[t].participant, thr[t].text) ELSE TxtEventLine(thr[t].timestamp, thr[t].participant, thr[t].event_type)
AppendJsonEntry(t) == IF thr[t].op = "write_transcript" THEN JsonTranscriptEntry(thr[t].timestamp, thr[t].participant, thr[t].text) ELSE JsonEventEntry(thr[t].timestamp, thr[t].participant, thr[t].event_type)
OnDisk(s, line) == \E i \in 1..Len(files[s].data) : files[s].data[i] = Chunk(line, "tail")

\* C7: when an append on an initialized, not yet finalized store has
\* returned, its record is on disk (flushed) in every enabled sink; a sink
\* holds unflushed data only while an operation is writing under the lock.
C7_AppendDurable ==
    /\ \A s \in Sinks : buffers[s] # << >> => \E t \in Threads : write_lock = t /\ Unflushed(t, s)
    /\ \A t \in Threads : (Returned(t) /\ IsAppend(t)) =>
          /\ TxtEnabled => (IF thr[t].saw_txt THEN OnDisk("txt", AppendTxtLine(t)) ELSE sink_closes["txt"] = 1)
          /\ JsonEnabled => (IF thr[t].saw_json THEN OnDisk("json", AppendJsonEntry(t)) ELSE sink_closes["json"] = 1)
    /\ (sink_closes["txt"] = 0 /\ TxtEnabled) => txt_handle = "open"
    /\ (sink_closes["json"] = 0 /\ JsonEnabled) => json_handle = "open"

\* An append has returned on a store that is still open, both sinks enabled.
C7_Witness ==
    /\ config.output_format = "both"
    /\ Returned("t1") /\ thr["t1"].op = "write_transcript" /\ thr["t1"].saw_txt /\ thr["t1"].saw_json
    /\ thr["t2"].pc = "json_flush" /\ IsAppend("t2")
    /\ sink_closes["txt"] = 0 /\ sink_closes["json"] = 0

\* ------------------------------------------ claims on the two sinks together
\* The record a whole line of the text sink describes, and the record of the
\* structured sink: kind, timestamp, participant and payload.
TxtDescribes(l) == IF l.fmt = "transcript" THEN <<"transcript", l.timestamp, l.participant, l.text>> ELSE <<"event", l.timestamp, l.participant, l.fmt>>
JsonDescribes(e) == IF e.type = "transcript" THEN <<"transcript", e.timestamp, e.participant, e.text>> ELSE <<"event", e.timestamp, e.participant, e.event>>

\* The transcript and lifecycle records written to a sink so far, a line
\* counted when its last piece is written.
Written(s) == SelectSeq(SinkData(s), LAMBDA c : c.part \in {"tail", "whole"})
TxtRecords == [i \in DOMAIN SelectSeq(Written("txt"), LAMBDA c : c.line.fmt \notin {"header", "footer"}) |-> TxtDescribes(SelectSeq(Written("txt"), LAMBDA c : c.line.fmt \notin {"header", "footer"})[i].line)]
JsonRecords == [i \in DOMAIN SelectSeq(Written("json"), LAMBDA c : c.line.type \notin {"header", "footer"}) |-> JsonDescribes(SelectSeq(Written("json"), LAMBDA c : c.line.type \notin {"header", "footer"})[i].line)]

\* An append holds the lock and has written its text line, not yet its
\* structured line.
BetweenSinks(t) == write_lock = t /\ IsAppend(t) /\ thr[t].saw_txt /\ thr[t].pc \in {"txt_flush", "json", "json_tail"}

MaxClockTicks == 1



ClockTick ==
    /\ now < 36000 + MaxClockTicks
    /\ now' = now + 1
    /\ UNCHANGED <<config, storeVars, last_speech_time, api_calls, thr, supVars, repairVars>>

NextClock == NextThreads \/ ClockTick

SpecClock == InitThreads /\ [][NextClock]_vars

\* The transcript and event records of the structured stream, in file order.
TimedRecords == SelectSeq(JsonLines, LAMBDA e : e.type \in {"event", "transcript"})

\* C28: whatever the interleaving of the appending threads, the records
\* between header and footer of the structured stream are in the order of
\* their timestamps.
C28_OrderedByTime ==
    \A i, j \in DOMAIN TimedRecords : i < j => TimedRecords[i].timestamp <= TimedRecords[j].timestamp

\* ------------------------------------ SpecRace: the statistics under threads
\* write_transcript called from concurrent threads, statement by statement
\* up to the with block: an augmented assignment on an attribute
\* (self.total_turns += 1) is a load and a store, and another thread can run
\* between the two. What runs with the lock held is one step here. Each
\* thread speaks for a participant of its own.
RaceTexts == {<<"a">>, <<"a", " ", "b">>}
RaceIdle == [pc |-> "idle", op |-> "none", participant |-> "", text |-> NoText, loaded |-> 0, calls |-> 0, turns |-> 0, words |-> 0]

InitRace ==
    /\ config \in Configs
    /\ now = 36000
    /\ write_lock = "free"
    /\ \E S \in {initialize([initialized |-> FALSE, txt_handle |-> "None", json_handle |-> "None", files |-> [f \in {"txt", "json", "stats"} |-> NoFile], buffers |-> [s \in {"txt", "json"} |-> << >>], stats |-> ProtocolStats(now), sink_opens |-> [s \in {"txt", "json"} |-> 0], sink_closes |-> [s \in {"txt", "json"} |-> 0], last_speech_time |-> << >>])} :
          /\ initialized = S.initialized
          /\ txt_handle = S.txt_handle
          /\ json_handle = S.json_handle
          /\ files = S.files
          /\ buffers = S.buffers
          /\ stats = S.stats
          /\ sink_opens = S.sink_opens
          /\ sink_closes = S.sink_closes
          /\ last_speech_time = S.last_speech_time
    /\ NewSupervisor
    /\ NoRepair
    /\ ep_pc = "boot"
    /\ remote_participants = << >>
    /\ api_calls = << >>
    /\ thr = [t \in Threads |-> RaceIdle]

raceFrame == <<config, now, api_calls, ep_pc, remote_participants, idle_pc, idle_info, idle_wake, idle_closing, notified, listeners, closeVars, repairVars>>

\* The thread goes on to pc, the object left as S and the lock as it is.
RaceStep(t, S, pc) ==
    /\ Commit(S)
    /\ thr' = [thr EXCEPT ![t].pc = pc]
    /\ UNCHANGED <<raceFrame, write_lock>>

RaceCallWriteTranscript(t) ==
    /\ thr[t].pc = "idle" /\ thr[t].calls < MaxThreadCalls
    /\ \E text \in RaceTexts : thr' = [thr EXCEPT ![t].pc = "last_speech", ![t].op = "write_transcript", ![t].participant = ThreadParticipant(t), ![t].text = text]
    /\ Commit(State)
    /\ UNCHANGED <<raceFrame, write_lock>>

RaceCallFinalize(t) ==
    /\ thr[t].pc = "idle" /\ thr[t].calls < MaxThreadCalls
    /\ thr' = [thr EXCEPT ![t].pc = "lock", ![t].op = "_finalize_protocol_files"]
    /\ Commit(State)
    /\ UNCHANGED <<raceFrame, write_lock>>

\* write_transcript, lines 661 and 664
RaceLastSpeech(t) ==
    /\ thr[t].pc = "last_speech"
    /\ RaceStep(t, [State EXCEPT !.last_speech_time = OdSet(@, thr[t].participant, now)], IF config.enable_statistics THEN "participant" ELSE "lock")

\* record_speech, lines 164-171: the participant's own counters
RaceParticipant(t) ==
    /\ thr[t].pc = "participant"
    /\ RaceStep(t, [State EXCEPT !.stats.participants = record_speech(stats, thr[t].participant, thr[t].text).participants], "load_turns")

\* record_speech, line 173: self.total_turns is loaded
RaceLoadTurns(t) ==
    /\ thr[t].pc = "load_turns"
    /\ thr' = [thr EXCEPT ![t].pc = "store_turns", ![t].loaded = stats.total_turns]
    /\ Commit(State)
    /\ UNCHANGED <<raceFrame, write_lock>>

\* record_speech, line 173: self.total_turns is stored
RaceStoreTurns(t) ==
    /\ thr[t].pc = "store_turns"
    /\ RaceStep(t, [State EXCEPT !.stats.total_turns = thr[t].loaded + 1], "load_words")

\* record_speech, line 174: self.total_words is loaded
RaceLoadWords(t) ==
    /\ thr[t].pc = "load_words"
    /\ thr' = [thr EXCEPT ![t].pc = "store_words", ![t].loaded = stats.total_words]
    /\ Commit(State)
    /\ UNCHANGED <<raceFrame, write_lock>>

\* record_speech, line 174: self.total_words is stored
RaceStoreWords(t) ==
    /\ thr[t].pc = "store_words"
    /\ RaceStep(t, [State EXCEPT !.stats.total_words = thr[t].loaded + Len(split(thr[t].text))], "lock")

\* with self._write_lock (lines 667 and 491)
RaceAcquire(t) ==
    /\ thr[t].pc = "lock"
    /\ write_lock = "free"
    /\ write_lock' = t
    /\ thr' = [thr EXCEPT ![t].pc = IF thr[t].op = "write_transcript" THEN "write" ELSE "finalize"]
    /\ Commit(State)
    /\ UNCHANGED raceFrame

\* write_transcript, lines 668-684
RaceWrite(t) ==
    /\ thr[t].pc = "write"
    /\ LET timestamp == get_timestamp(now)
       IN RaceStep(t, Appended(State, TxtTranscriptLine(timestamp, thr[t].participant, thr[t].text), JsonTranscriptEntry(timestamp, thr[t].participant, thr[t].text)), "unlock")

\* _finalize_protocol_files, lines 491-527
RaceFinalize(t) ==
    /\ thr[t].pc = "finalize"
    /\ RaceStep(t, _finalize_protocol_files(State), "unlock")

\* The with block is left and the operation returns.
RaceRelease(t) ==
    /\ thr[t].pc = "unlock"
    /\ write_lock' = "free"
    /\ thr' = [thr EXCEPT ![t].pc = "idle", ![t].calls = @ + 1,
                          ![t].turns = @ + (IF thr[t].op = "write_transcript" THEN 1 ELSE 0),
                          ![t].words = @ + (IF thr[t].op = "write_transcript" THEN Len(split(thr[t].text)) ELSE 0)]
    /\ Commit(State)
    /\ UNCHANGED raceFrame

NextRace ==
    \E t \in Threads :
        \/ RaceCallWriteTranscript(t)
        \/ RaceCallFinalize(t)
        \/ RaceLastSpeech(t)
        \/ RaceParticipant(t)
        \/ RaceLoadTurns(t)
        \/ RaceStoreTurns(t)
        \/ RaceLoadWords(t)
        \/ RaceStoreWords(t)
        \/ RaceAcquire(t)
        \/ RaceWrite(t)
        \/ RaceFinalize(t)
        \/ RaceRelease(t)

SpecRace == InitRace /\ [][NextRace]_vars

\* A step of the thread holding the lock.
StepOfLockHolder == write_lock # "free" /\ thr'[write_lock] # thr[write_lock]

\* No thread is inside an operation.
Quiescent == \A t \in Threads : thr[t].pc = "idle"

\* The totals of the aggregate st are the sums over its participants.
RECURSIVE SumOver(_, _, _)
SumOver(d, ks, field) == IF ks = {} THEN 0 ELSE LET k == CHOOSE x \in ks : TRUE IN d[k][field] + SumOver(d, ks \ {k}, field)
WholeAggregate(st) ==
    /\ st.total_turns = SumOver(st.participants, DOMAIN st.participants, "turn_count")
    /\ st.total_words = SumOver(st.participants, DOMAIN st.participants, "word_count")

\* C29: the statistics change only in steps of the thread that holds the
\* store's lock; when the appends of concurrent callers have returned, the
\* totals have grown by their number and by the sum of their word counts;
\* the aggregate finalize writes is never a half-updated one.
C29_StatsUnderLock ==
    /\ [][stats' # stats => StepOfLockHolder]_vars
    /\ [](Quiescent /\ config.enable_statistics =>
            /\ stats.total_turns = thr["t1"].turns + thr["t2"].turns
            /\ stats.total_words = thr["t1"].words + thr["t2"].words)
    /\ [](files["stats"].exists => WholeAggregate(files["stats"].data[1].line))

\* ------------------------------------------------------------- supervisor
\* Sessions are numbered in the order they are created; 0 is no session.
NoSession == 0

\* AgentSession(...): the session exists and has not been started.
AgentSession(participant) == [participant |-> participant, state |-> "starting"]

\* asyncio.create_task(self._start_session(participant)) and
\* asyncio.create_task(self._close_session(session)): the task is scheduled
\* and has not run yet.
StartTask(participant) == [kind |-> "start", participant |-> participant, state |-> "created", session |-> NoSession]
CloseTask(participant, session) == [kind |-> "close", participant |-> participant, state |-> "created", session |-> session]

\* self._tasks.discard(t), for the task at position i of the tasks created.
Discard(ts, i) == SubSeq(ts, 1, i - 1) \o SubSeq(ts, i + 1, Len(ts))

\* sess.drain() begins on a session: a running session starts to close.
Drained(state) == IF state = "running" THEN "closing" ELSE state

_on_participant_connected(S, participant) ==
    IF participant \in DOMAIN S.sessions THEN S
    ELSE LET timestamp == get_timestamp(now)
             S1 == [S EXCEPT !.last_speech_time = OdSet(@, participant, now),
                             !.stats.participants = IF participant \in DOMAIN @ THEN @ ELSE DictSet(@, participant, ParticipantStats(timestamp))]
             S2 == _write_participant_event(S1, timestamp, participant, "joined")
         IN [S2 EXCEPT !.tasks = Append(@, StartTask(participant)), !.task_seq = @ + 1]

_on_participant_disconnected(S, participant) ==
    IF participant \notin DOMAIN S.sessions THEN S
    ELSE LET session == S.sessions[participant]
             timestamp == get_timestamp(now)
             S1 == [S EXCEPT !.sessions = DictPop(@, participant),
                             !.stats.participants = IF participant \in DOMAIN @ THEN [@ EXCEPT ![participant].left_at = timestamp] ELSE @]
             S2 == _write_participant_event(S1, timestamp, participant, "left")
         IN [S2 EXCEPT !.tasks = Append(@, CloseTask(participant, session))]

\* The loop of _restart_sessions_after_idle over the participants ps.
RECURSIVE RestartLoop(_, _)
RestartLoop(S, ps) ==
    IF ps = << >> THEN S
    ELSE LET participant == Head(ps)
         IN IF participant \in DOMAIN S.sessions THEN RestartLoop(S, Tail(ps))
            ELSE LET S1 == [S EXCEPT !.last_speech_time = OdSet(@, participant, now)]
                     S2 == _write_participant_event(S1, get_timestamp(now), participant, "resumed")
                     S3 == [S2 EXCEPT !.tasks = Append(@, StartTask(participant)), !.task_seq = @ + 1]
                 IN RestartLoop(S3, Tail(ps))

_restart_sessions_after_idle(S) == RestartLoop(S, remote_participants)

TrackKinds == {"audio", "video"}

_on_track_subscribed(S, kind, participant) ==
    IF kind = "audio" /\ S.all_idle /\ participant \notin DOMAIN S.sessions
    THEN _restart_sessions_after_idle([S EXCEPT !.all_idle = FALSE])
    ELSE S

\* on_session_started: the done callback of the session-start task at
\* position i, which returned session (NoSession: it raised).
on_session_started(S, i, session) ==
    LET S1 == IF session # NoSession THEN [S EXCEPT !.sessions = DictSet(@, S.tasks[i].participant, session)] ELSE S
    IN [S1 EXCEPT !.tasks = Discard(@, i)]

\* ----------------------------------------------------- ProtocolRecorder
\* not user_transcript or not user_transcript.strip()
IsEmptyTranscript_NoStrip(msg) == ~msg.has_text \/ msg.text = << >>
IsEmptyTranscript(msg) == ~msg.has_text \/ msg.text = << >> \/ strip(msg.text) = << >>

on_user_turn_completed(S, participant_identity, new_message) ==
    IF IsEmptyTranscript(new_message) THEN S
    ELSE write_transcript(S, get_timestamp(now), participant_identity, new_message.text)

\* ------------------------------------------------------------ idle check
check_interval == 60
timeout_seconds == config.idle_timeout_minutes * 60

\* The scan of _last_speech_time: all_idle and idle_info when the loop ends.
RECURSIVE IdleScan(_, _, _)
IdleScan(S, items, info) ==
    IF items = << >> THEN [all_idle |-> TRUE, idle_info |-> info]
    ELSE LET identity == Head(items).key
             idle_seconds == now - Head(items).value
         IN IF identity \notin DOMAIN S.sessions THEN IdleScan(S, Tail(items), info)
            ELSE IF idle_seconds < timeout_seconds THEN [all_idle |-> FALSE, idle_info |-> info]
            ELSE IdleScan(S, Tail(items), Append(info, identity))

\* if all_idle and idle_info
IdleDecision_AnyIdle(scan) == scan.idle_info # << >>
IdleDecision(scan) == scan.all_idle /\ scan.idle_info # << >>

\* The idle check goes back to sleep with the object in state S.
IdleSleeps(S) == [S |-> S, pc |-> "sleep", info |-> << >>, closing |-> NoSession]

\* The closing loop over idle_info, up to the next await of a session close
\* or, past the loop, to the flag and the next sleep.
RECURSIVE IdleCloseLoop(_, _)
IdleCloseLoop(S, info) ==
    IF info = << >> THEN IdleSleeps([S EXCEPT !.all_idle = TRUE])
    ELSE LET identity == Head(info)
         IN IF identity \notin DOMAIN S.sessions THEN IdleCloseLoop(S, Tail(info))
            ELSE LET session == S.sessions[identity]
                     S1 == [S EXCEPT !.sessions = DictPop(@, identity)]
                     S2 == _write_participant_event(S1, get_timestamp(now), identity, "idle_timeout")
                     S3 == [S2 EXCEPT !.agent_sessions[session].state = Drained(@)]
                 IN [S |-> S3, pc |-> "closing", info |-> Tail(info), closing |-> session]

\* One wake-up of the idle check, up to its next await.
IdleIteration(S) ==
    IF DOMAIN S.sessions = {} THEN IdleSleeps(S)
    ELSE LET scan == IdleScan(S, S.last_speech_time, << >>)
         IN IF IdleDecision(scan) THEN IdleCloseLoop(S, scan.idle_info) ELSE IdleSleeps(S)

\* -------------------------------------------------------------------- Spec
\* The configurations of the supervisor runs: both sinks, statistics enabled.
SupervisorConfigs == {c \in Configs : c.output_format = "both" /\ c.enable_statistics}

\* The clock moves by half a check interval.
TickStep == check_interval \div 2
StartTime == 10 * 3600

\* A text is blank when it is absent, empty or has only whitespace characters.
Blank(msg) == ~msg.has_text \/ \A i \in 1..Len(msg.text) : msg.text[i] \in Whitespace

\* The notifications delivered so far of the kinds ks, all participants together.
RECURSIVE CountIn(_, _)
CountIn(s, ks) == IF s = << >> THEN 0 ELSE (IF Head(s) \in ks THEN 1 ELSE 0) + CountIn(Tail(s), ks)
Notifications(ks) == CountIn(notified["A"], ks) + CountIn(notified["B"], ks)

\* The participants of ps that are not in the room yet, in each order.
Arrivals == {<< >>} \cup {<<p>> : p \in Participants} \cup {<<p, q>> : p, q \in Participants}
NewArrivals == {a \in Arrivals : /\ \A i \in 1..Len(a) : ~\E j \in 1..Len(remote_participants) : remote_participants[j] = a[i]
                                 /\ \A i, j \in 1..Len(a) : a[i] = a[j] => i = j}

InRoom(p) == \E j \in 1..Len(remote_participants) : remote_participants[j] = p
Leave(ps, p) == SelectSeq(ps, LAMBDA q : q # p)

Init ==
    /\ config \in SupervisorConfigs
    /\ now = StartTime
    /\ NewStore
    /\ NewSupervisor
    /\ NoRepair
    /\ ep_pc = "boot"
    /\ remote_participants = << >>
    /\ api_calls = << >>
    /\ thr = [t \in Threads |-> [pc |-> "idle"]]

supFrame == <<config, write_lock, api_calls, thr, closeVars, repairVars>>
idleVars == <<idle_pc, idle_info, idle_wake, idle_closing>>

\* start, lines 335-338: the notifications the supervisor attaches handlers to.
RoomNotifications == {"participant_connected", "participant_disconnected", "track_subscribed", "track_unsubscribed"}

\* entrypoint, lines 747-752: initialize, start, and the await of ctx.connect.
EntrypointStart ==
    /\ ep_pc = "boot"
    /\ ep_pc' = "connecting"
    /\ Commit(initialize(State))
    /\ idle_pc' = IF config.idle_timeout_minutes > 0 THEN "sleep" ELSE idle_pc
    /\ idle_wake' = now + check_interval
    /\ listeners' = RoomNotifications
    /\ UNCHANGED <<supFrame, now, remote_participants, idle_info, idle_closing, notified>>

\* The handler called for each participant of ps in turn.
RECURSIVE Sweep(_, _)
Sweep(S, ps) == IF ps = << >> THEN S ELSE Sweep(_on_participant_connected(S, Head(ps)), Tail(ps))

\* entrypoint, lines 753-757: ctx.connect returns, the room holding the
\* participants that were there already, and the sweep over them.
EntrypointConnected ==
    /\ ep_pc = "connecting"
    /\ ep_pc' = "running"
    /\ \E a \in NewArrivals :
          /\ remote_participants' = remote_participants \o a
          /\ Notifications({"join", "sweep"}) + Len(remote_participants') <= MaxJoins
          /\ LET S == Sweep(State, remote_participants')
             IN S.task_seq <= MaxSessions /\ Commit(S)
          /\ notified' = [p \in Participants |-> IF \E j \in 1..Len(remote_participants') : remote_participants'[j] = p THEN Append(notified[p], "sweep") ELSE notified[p]]
    /\ UNCHANGED <<supFrame, listeners, now, idleVars>>

\* The runtime's participant_connected notification.
ParticipantConnected(p) ==
    /\ ep_pc \in {"connecting", "running"}
    /\ "participant_connected" \in listeners
    /\ ~InRoom(p)
    /\ Notifications({"join", "sweep"}) < MaxJoins
    /\ remote_participants' = Append(remote_participants, p)
    /\ notified' = [notified EXCEPT ![p] = Append(@, "join")]
    /\ LET S == _on_participant_connected(State, p)
       IN S.task_seq <= MaxSessions /\ Commit(S)
    /\ UNCHANGED <<supFrame, listeners, now, ep_pc, idleVars>>

\* The runtime's participant_disconnected notification.
ParticipantDisconnected(p) ==
    /\ ep_pc \in {"connecting", "running"}
    /\ "participant_disconnected" \in listeners
    /\ InRoom(p)
    /\ remote_participants' = Leave(remote_participants, p)
    /\ notified' = [notified EXCEPT ![p] = Append(@, "leave")]
    /\ Commit(_on_participant_disconnected(State, p))
    /\ UNCHANGED <<supFrame, listeners, now, ep_pc, idleVars>>

\* The runtime's track_subscribed notification.
TrackSubscribed(kind, p) ==
    /\ ep_pc \in {"connecting", "running"}
    /\ "track_subscribed" \in listeners
    /\ InRoom(p)
    /\ LET S == _on_track_subscribed(State, kind, p)
       IN S.task_seq <= MaxSessions /\ Commit(S)
    /\ UNCHANGED <<supFrame, listeners, now, ep_pc, remote_participants, idleVars, notified>>

\* _start_session, lines 598-631: the task runs up to its first await, or
\* returns the session the participant has already.
StartSessionRun(i) ==
    /\ i \in 1..Len(tasks)
    /\ tasks[i].kind = "start" /\ tasks[i].state = "created"
    /\ LET participant == tasks[i].participant
       IN IF participant \in DOMAIN sessions
          THEN /\ tasks' = [tasks EXCEPT ![i].state = "returned", ![i].session = sessions[participant]]
               /\ UNCHANGED agent_sessions
          ELSE /\ agent_sessions' = Append(agent_sessions, AgentSession(participant))
               /\ tasks' = [tasks EXCEPT ![i].state = "awaiting", ![i].session = Len(agent_sessions) + 1]
    /\ UNCHANGED <<supFrame, listeners, now, storeVars, last_speech_time, ep_pc, remote_participants, sessions, task_seq, all_idle, idleVars, notified>>

\* session.start returns, the task returns the session, and its done
\* callback runs.
SessionStartCompleted(i) ==
    /\ i \in 1..Len(tasks)
    /\ tasks[i].kind = "start" /\ tasks[i].state = "awaiting"
    /\ LET S == [State EXCEPT !.agent_sessions[tasks[i].session].state = "running"]
       IN Commit(on_session_started(S, i, tasks[i].session))
    /\ UNCHANGED <<supFrame, listeners, now, ep_pc, remote_participants, idleVars, notified>>

\* session.start raises, and the task's done callback runs.
SessionStartFailed(i) ==
    /\ i \in 1..Len(tasks)
    /\ tasks[i].kind = "start" /\ tasks[i].state = "awaiting"
    /\ LET S == [State EXCEPT !.agent_sessions[tasks[i].session].state = "failed"]
       IN Commit(on_session_started(S, i, NoSession))
    /\ UNCHANGED <<supFrame, listeners, now, ep_pc, remote_participants, idleVars, notified>>

\* The done callback of a task that returned without awaiting.
OnSessionStarted(i) ==
    /\ i \in 1..Len(tasks)
    /\ tasks[i].kind = "start" /\ tasks[i].state = "returned"
    /\ Commit(on_session_started(State, i, tasks[i].session))
    /\ UNCHANGED <<supFrame, listeners, now, ep_pc, remote_participants, idleVars, notified>>

\* _close_session in a task of its own: up to the await of sess.drain().
CloseSessionRun(i) ==
    /\ i \in 1..Len(tasks)
    /\ tasks[i].kind = "close" /\ tasks[i].state = "created"
    /\ tasks' = [tasks EXCEPT ![i].state = "awaiting"]
    /\ agent_sessions' = [agent_sessions EXCEPT ![tasks[i].session].state = Drained(@)]
    /\ UNCHANGED <<supFrame, listeners, now, storeVars, last_speech_time, ep_pc, remote_participants, sessions, task_seq, all_idle, idleVars, notified>>

\* sess.drain() and sess.aclose() return, and the done callback discards the task.
CloseSessionDone(i) ==
    /\ i \in 1..Len(tasks)
    /\ tasks[i].kind = "close" /\ tasks[i].state = "awaiting"
    /\ tasks' = Discard(tasks, i)
    /\ agent_sessions' = [agent_sessions EXCEPT ![tasks[i].session].state = "closed"]
    /\ UNCHANGED <<supFrame, listeners, now, storeVars, last_speech_time, ep_pc, remote_participants, sessions, task_seq, all_idle, idleVars, notified>>

\* A running session reports a completed user turn to its ProtocolRecorder.
UserTurnCompleted(session, new_message) ==
    /\ session \in 1..Len(agent_sessions)
    /\ agent_sessions[session].state = "running"
    /\ Notifications({"speak", "blank"}) < MaxUtterances
    /\ LET participant == agent_sessions[session].participant
       IN /\ Commit(on_user_turn_completed(State, participant, new_message))
          /\ notified' = [notified EXCEPT ![participant] = Append(@, IF Blank(new_message) THEN "blank" ELSE "speak")]
    /\ UNCHANGED <<supFrame, listeners, now, ep_pc, remote_participants, idleVars>>

\* _idle_check_loop: asyncio.sleep(check_interval) returns and the iteration
\* runs up to its next await.
IdleCheck ==
    /\ idle_pc = "sleep"
    /\ now >= idle_wake
    /\ LET r == IdleIteration(State)
       IN /\ Commit(r.S)
          /\ idle_pc' = r.pc
          /\ idle_info' = r.info
          /\ idle_closing' = r.closing
          /\ idle_wake' = IF r.pc = "sleep" THEN now + check_interval ELSE idle_wake
    /\ UNCHANGED <<supFrame, listeners, now, ep_pc, remote_participants, notified>>

\* The session close the idle check awaits returns, and the closing loop goes on.
IdleCloseResume ==
    /\ idle_pc = "closing"
    /\ LET S == [State EXCEPT !.agent_sessions[idle_closing].state = "closed"]
           r == IdleCloseLoop(S, idle_info)
       IN /\ Commit(r.S)
          /\ idle_pc' = r.pc
          /\ idle_info' = r.info
          /\ idle_closing' = r.closing
          /\ idle_wake' = IF r.pc = "sleep" THEN now + check_interval ELSE idle_wake
    /\ UNCHANGED <<supFrame, listeners, now, ep_pc, remote_participants, notified>>

\* Time passes, from the start of the entrypoint on. A task that is ready to
\* run, or whose done callback is ready to run, runs in the event loop before
\* the clock has moved by a tick.
Tick ==
    /\ ep_pc # "boot"
    /\ now < StartTime + MaxTicks * TickStep
    /\ \A i \in DOMAIN tasks : tasks[i].state = "awaiting"
    /\ now' = now + TickStep
    /\ UNCHANGED <<supFrame, storeVars, last_speech_time, supVars>>

Next ==
    \/ EntrypointStart
    \/ EntrypointConnected
    \/ \E p \in Participants : ParticipantConnected(p)
    \/ \E p \in Participants : ParticipantDisconnected(p)
    \/ \E kind \in TrackKinds, p \in Participants : TrackSubscribed(kind, p)
    \/ \E i \in DOMAIN tasks : StartSessionRun(i)
    \/ \E i \in DOMAIN tasks : SessionStartCompleted(i)
    \/ \E i \in DOMAIN tasks : SessionStartFailed(i)
    \/ \E i \in DOMAIN tasks : OnSessionStarted(i)
    \/ \E i \in DOMAIN tasks : CloseSessionRun(i)
    \/ \E i \in DOMAIN tasks : CloseSessionDone(i)
    \/ \E session \in DOMAIN agent_sessions, new_message \in Messages : UserTurnCompleted(session, new_message)
    \/ IdleCheck
    \/ IdleCloseResume
    \/ Tick

Spec == Init /\ [][Next]_vars

\* ------------------------------------------------- claims on the supervisor
\* The records of participant p in the structured stream, in file order.
RecordsOf(p) == SelectSeq(JsonLines, LAMBDA e : e.type \in {"event", "transcript"} /\ e.participant = p)
EventsOf(p) == SelectSeq(JsonLines, LAMBDA e : e.type = "event" /\ e.participant = p)
IsEvent(e, event_type) == e.type = "event" /\ e.event = event_type

\* The notifications s are join, then utterances with text, then leave.
JoinSpeakLeave(s) ==
    /\ Len(s) >= 2
    /\ s[1] = "join"
    /\ s[Len(s)] = "leave"
    /\ \A i \in 2..(Len(s) - 1) : s[i] = "speak"

\* C1: after the notifications join, N utterances with text, leave of one
\* participant, the structured stream holds for that participant one joined
\* record, then N transcript records with non-decreasing timestamps, then
\* one left record, and the statistics show turn_count = N.
C1_JoinSpeakLeave ==
    \A p \in Participants :
        JoinSpeakLeave(notified[p]) =>
            LET r == RecordsOf(p)
                N == Len(notified[p]) - 2
            IN /\ Len(r) = N + 2
               /\ IsEvent(r[1], "joined")
               /\ \A i \in 2..(N + 1) : r[i].type = "transcript" /\ (i > 2 => r[i - 1].timestamp <= r[i].timestamp)
               /\ IsEvent(r[N + 2], "left")
               /\ p \in DOMAIN stats.participants
               /\ stats.participants[p].turn_count = N

\* What a blank utterance must leave alone.
recorderVars == <<storeVars, last_speech_time, sessions, agent_sessions, tasks, task_seq, all_idle>>

\* C2: a completed-utterance notification whose text is absent, empty or
\* only whitespace changes nothing: no line in either sink, no counter, and
\* the participant's last_speech_time stays as it was.
C2_BlankUtteranceNoEffect == [][\A session \in DOMAIN agent_sessions, m \in Messages : (Blank(m) /\ UserTurnCompleted(session, m)) => UNCHANGED recorderVars]_vars

\* A blank utterance of a participant was the last notification about them,
\* it came later than their last speech time, and no transcript was recorded.
C2_Witness ==
    \E p \in Participants :
        /\ notified[p] # << >> /\ notified[p][Len(notified[p])] = "blank"
        /\ OdHas(last_speech_time, p) /\ OdGet(last_speech_time, p) < now
        /\ \A i \in 1..Len(JsonLines) : JsonLines[i].type # "transcript"
        /\ stats.total_turns = 0

\* Some participant with an active session spoke more recently than the timeout.
SomeoneSpokeRecently == \E p \in DOMAIN sessions : OdHas(last_speech_time, p) /\ now - OdGet(last_speech_time, p) < timeout_seconds

\* C3: when the idle check runs while some participant with an active
\* session has been silent for less than the timeout, it closes no session,
\* writes no pause record and does not raise the idle flag.
C3_GroupIdleOnlyWhenAllSilent == [][(IdleCheck /\ SomeoneSpokeRecently) => UNCHANGED <<sessions, agent_sessions, files, buffers, all_idle, idle_pc>>]_vars

\* The idle check has just run with A silent for the timeout and B not, both
\* with an active session, and both sessions are still there and running.
C3_Witness ==
    /\ idle_pc = "sleep" /\ idle_wake = now + check_interval
    /\ DOMAIN sessions = {"A", "B"}
    /\ now - OdGet(last_speech_time, "A") >= timeout_seconds
    /\ now - OdGet(last_speech_time, "B") < timeout_seconds
    /\ \A p \in {"A", "B"} : agent_sessions[sessions[p]].state = "running"
    /\ ~all_idle
    /\ \A i \in 1..Len(JsonLines) : ~IsEvent(JsonLines[i], "idle_timeout")

\* Participant p has a joined record and no left record since.
JoinedNotLeft(p) == EventsOf(p) # << >> /\ ~IsEvent(EventsOf(p)[Len(EventsOf(p))], "left") /\ \E i \in 1..Len(EventsOf(p)) : IsEvent(EventsOf(p)[i], "joined")

\* C4: for a participant with a joined record and no left record since, a
\* leave notification appends exactly one left record and leaves the
\* participant without a session in the active set, whatever the state of
\* their session.
C4_LeaveAppendsLeft ==
    [][\A p \in Participants : (JoinedNotLeft(p) /\ ParticipantDisconnected(p)) =>
          /\ Len(JsonLines') = Len(JsonLines) + 1
          /\ JsonLines'[Len(JsonLines')] = JsonEventEntry(get_timestamp(now), p, "left")
          /\ p \notin DOMAIN sessions']_vars

\* C5: between two consecutive left records of a participant, or from the
\* start, the stream holds at most one joined record for that participant.
C5_OneJoinedPerJoin ==
    \A p \in Participants :
        \A i, j \in 1..Len(EventsOf(p)) :
            (i < j /\ IsEvent(EventsOf(p)[i], "joined") /\ IsEvent(EventsOf(p)[j], "joined")) =>
                \E k \in (i + 1)..(j - 1) : IsEvent(EventsOf(p)[k], "left")

\* ---------------------------------------------- claims on the sessions
\* The sessions of p that are established or being established.
LiveSessions(p) == {k \in DOMAIN agent_sessions : agent_sessions[k].participant = p /\ agent_sessions[k].state \in {"starting", "running"}}
Replaced(p) == p \in DOMAIN sessions /\ p \in DOMAIN sessions' /\ sessions'[p] # sessions[p]
Registered(p) == p \notin DOMAIN sessions /\ p \in DOMAIN sessions'

\* C19: a participant has at most one session that is established or being
\* established; a session is replaced in the active set only when it has
\* been closed; and a session is registered only for a participant in the
\* room, not for one whose leave has been processed.
C19_SessionExclusivity ==
    /\ [](\A p \in Participants : Cardinality(LiveSessions(p)) <= 1)
    /\ [][\A p \in Participants :
            /\ Replaced(p) => agent_sessions[sessions[p]].state \in {"closing", "closed"}
            /\ Registered(p) => InRoom(p)]_vars

\* The establishment of a session for p has failed, p is in the room and has
\* neither a session nor an attempt under way.
HasStartTask(ts, p) == \E i \in DOMAIN ts : ts[i].kind = "start" /\ ts[i].participant = p
FailedAndWaiting(p) ==
    /\ InRoom(p)
    /\ p \notin DOMAIN sessions
    /\ ~HasStartTask(tasks, p)
    /\ LiveSessions(p) = {}
    /\ \E k \in DOMAIN agent_sessions : agent_sessions[k].participant = p /\ agent_sessions[k].state = "failed"

\* C20: a failed establishment leaves the store, the active set and the
\* sessions of the others as they are; and the next audio track subscribed
\* for the participant starts a new attempt, the idle flag raised or not.
C20_RetryOnTrack ==
    /\ [][\A i \in DOMAIN tasks :
            SessionStartFailed(i) =>
                /\ UNCHANGED <<storeVars, sessions>>
                /\ \A k \in DOMAIN agent_sessions : k # tasks[i].session => agent_sessions'[k] = agent_sessions[k]]_vars
    /\ [](\A p \in Participants :
            (FailedAndWaiting(p) /\ ep_pc = "running" /\ "track_subscribed" \in listeners)
            => HasStartTask(_on_track_subscribed(State, "audio", p).tasks, p))

\* ------------------------------------------ claims on the group idle check
\* The lifecycle events of participant p in the structured stream, in file order.
Lifecycle(p) == [k \in DOMAIN EventsOf(p) |-> EventsOf(p)[k].event]

\* C21: in the structured stream, for each participant, a resumed record
\* comes directly after an idle-pause record of that participant, and an
\* idle-pause record directly after a joined or a resumed record.
C21_LifecycleStateMachine ==
    \A p \in Participants :
        \A k \in DOMAIN Lifecycle(p) :
            /\ Lifecycle(p)[k] = "resumed" => (k > 1 /\ Lifecycle(p)[k - 1] = "idle_timeout")
            /\ Lifecycle(p)[k] = "idle_timeout" => (k > 1 /\ Lifecycle(p)[k - 1] \in {"joined", "resumed"})

\* The idle-pause records of p among the lines of a structured stream.
PausesIn(data, p) == SelectSeq(Lines(data), LAMBDA e : e.type = "event" /\ e.participant = p /\ e.event = "idle_timeout")
FlagRaised == ~all_idle /\ all_idle'
ClosedForIdle(p) == idle_pc' = "closing" /\ p \in DOMAIN sessions /\ p \notin DOMAIN sessions' /\ idle_closing' = sessions[p]

\* C22: each session the idle check takes from the active set gets one
\* idle-pause record and is closed before the flag is raised; when the flag
\* is raised the active set is empty; and while the flag is raised no
\* participant has an active session.
C22_GroupIdlePostcondition ==
    /\ [][\A p \in Participants :
            ClosedForIdle(p) => Len(PausesIn(files'["json"].data, p)) = Len(PausesIn(files["json"].data, p)) + 1]_vars
    /\ [][FlagRaised =>
            /\ DOMAIN sessions' = {}
            /\ idle_pc = "closing" /\ agent_sessions'[idle_closing].state = "closed"]_vars
    /\ [](all_idle => DOMAIN sessions = {})

\* C23: the idle check takes no session from the active set and closes it
\* while some participant with an active session has spoken within the
\* timeout, also when the utterance came after the check decided.
C23_SpeakerNeverSuspended == [][\A p \in Participants : ClosedForIdle(p) => ~SomeoneSpokeRecently]_vars

\* ------------------------------------------- claims on transcript ingestion
\* The transcript records of participant p in the structured stream.
TranscriptsOf(data, p) == SelectSeq(Lines(data), LAMBDA e : e.type = "transcript" /\ e.participant = p)

\* An utterance of participant p is ingested in this step.
Ingested(p) == Len(TranscriptsOf(files'["json"].data, p)) = Len(TranscriptsOf(files["json"].data, p)) + 1

\* C30: the transcript record of an ingested utterance carries the text
\* with no whitespace at its ends and the number of the words of the text,
\* and the ingestion sets the participant's last_speech_time to its time.
C30_TranscriptNormalized ==
    /\ [](\A k \in DOMAIN JsonLines : JsonLines[k].type = "transcript" =>
            /\ JsonLines[k].text = strip(JsonLines[k].text)
            /\ JsonLines[k].word_count = Len(split(JsonLines[k].text)))
    /\ [][\A p \in Participants : Ingested(p) => OdGet(last_speech_time', p) = now]_vars

\* ------------------------------------------- claims on the statistics totals
\* The counters of the aggregate st that the aggregate nx has not below.
NotBelow(st, nx) ==
    /\ nx.total_turns >= st.total_turns
    /\ nx.total_words >= st.total_words
    /\ DOMAIN st.participants \subseteq DOMAIN nx.participants
    /\ \A p \in DOMAIN st.participants :
          /\ nx.participants[p].word_count >= st.participants[p].word_count
          /\ nx.participants[p].turn_count >= st.participants[p].turn_count
          /\ nx.participants[p].characters >= st.participants[p].characters

AcloseFinish(S, log) ==
    [S |-> _finalize_protocol_files([S EXCEPT !.stats.ended_at = get_timestamp(now)]),
     pc |-> "done",
     pending |-> {},
     log |-> log \o <<"detach", "finalize">>,
     listeners |-> listeners \ {"participant_connected", "participant_disconnected"}]

\* Lines 473-477: the gather of a close for every session of _sessions.
AcloseSessions(S, log) ==
    IF DOMAIN S.sessions = {} THEN AcloseFinish(S, log)
    ELSE LET ss == {S.sessions[p] : p \in DOMAIN S.sessions}
         IN [S |-> [S EXCEPT !.agent_sessions = [i \in DOMAIN @ |-> IF i \in ss THEN [@[i] EXCEPT !.state = Drained(@)] ELSE @[i]]],
             pc |-> "await_sessions",
             pending |-> ss,
             log |-> Append(log, "close_sessions"),
             listeners |-> listeners]

\* Lines 469-470: cancel_and_wait on the tasks of _tasks. A task that is done
\* already (its done callback not run yet) is not cancelled.
AcloseTasks(S, log) ==
    IF S.tasks = << >> THEN AcloseSessions(S, log)
    ELSE [S |-> [S EXCEPT !.tasks = [i \in DOMAIN @ |-> IF @[i].state \in {"created", "awaiting"} THEN [@[i] EXCEPT !.state = "cancelled"] ELSE @[i]]],
          pc |-> "await_tasks",
          pending |-> {},
          log |-> Append(log, "cancel_tasks"),
          listeners |-> listeners]

\* aclose is left as the record r says.
AcloseCommit(r) ==
    /\ Commit(r.S)
    /\ close_pc' = r.pc
    /\ close_pending' = r.pending
    /\ close_log' = r.log
    /\ listeners' = r.listeners

closeFrame == <<config, now, write_lock, api_calls, thr, ep_pc, remote_participants, notified, repairVars>>

\* The shutdown callback calls aclose, lines 461-464: the idle-check task is
\* cancelled and awaited. The CancelledError reaches the task at the await it
\* is at, its sleep or the session close it awaits, and ends the loop.
AcloseCancelIdle ==
    /\ ep_pc = "running"
    /\ close_pc = "none"
    /\ close_pc' = "await_idle"
    /\ close_log' = <<"cancel_idle">>
    /\ idle_pc' = "stopped"
    /\ UNCHANGED <<closeFrame, storeVars, last_speech_time, sessions, agent_sessions, tasks, task_seq, all_idle, idle_info, idle_wake, idle_closing, listeners, close_pending>>

\* The await of the idle-check task returns; aclose goes on to its next await.
AcloseIdleStopped ==
    /\ close_pc = "await_idle"
    /\ AcloseCommit(AcloseTasks(State, Append(close_log, "idle_stopped")))
    /\ UNCHANGED <<closeFrame, idleVars>>

\* A cancelled task ends and its done callback runs: nothing is registered,
\* the task is discarded. A session whose start was cancelled is not started.
TaskCancelled(i) ==
    /\ i \in DOMAIN tasks
    /\ tasks[i].state = "cancelled"
    /\ tasks' = Discard(tasks, i)
    /\ agent_sessions' = IF tasks[i].kind = "start" /\ tasks[i].session # NoSession
                         THEN [agent_sessions EXCEPT ![tasks[i].session].state = "cancelled"]
                         ELSE agent_sessions
    /\ UNCHANGED <<closeFrame, storeVars, last_speech_time, sessions, task_seq, all_idle, idleVars, listeners, closeVars>>

\* cancel_and_wait returns: every task it cancelled is done.
AcloseTasksDone ==
    /\ close_pc = "await_tasks"
    /\ \A i \in DOMAIN tasks : tasks[i].state # "cancelled"
    /\ AcloseCommit(AcloseSessions(State, Append(close_log, "tasks_done")))
    /\ UNCHANGED <<closeFrame, idleVars>>

\* One close of the gather returns.
AcloseSessionClosed(session) ==
    /\ close_pc = "await_sessions"
    /\ session \in close_pending
    /\ close_pending' = close_pending \ {session}
    /\ agent_sessions' = [agent_sessions EXCEPT ![session].state = "closed"]
    /\ UNCHANGED <<closeFrame, storeVars, last_speech_time, sessions, tasks, task_seq, all_idle, idleVars, listeners, close_pc, close_log>>

\* The failure of one close is raised out of the gather and out of aclose,
\* which stops there.
AcloseSessionCloseFailed_Raises(session) ==
    /\ close_pc = "await_sessions"
    /\ session \in close_pending
    /\ close_pc' = "raised"
    /\ close_pending' = {}
    /\ agent_sessions' = [agent_sessions EXCEPT ![session].state = "close_failed"]
    /\ UNCHANGED <<closeFrame, storeVars, last_speech_time, sessions, tasks, task_seq, all_idle, idleVars, listeners, close_log>>

\* One close of the gather fails: sess.drain() or sess.aclose() raises, and
\* _close_session logs the error (lines 655-656).
AcloseSessionCloseFailed(session) ==
    /\ close_pc = "await_sessions"
    /\ session \in close_pending
    /\ close_pending' = close_pending \ {session}
    /\ agent_sessions' = [agent_sessions EXCEPT ![session].state = "close_failed"]
    /\ UNCHANGED <<closeFrame, storeVars, last_speech_time, sessions, tasks, task_seq, all_idle, idleVars, listeners, close_pc, close_log>>

\* The gather returns: every close it holds is over.
AcloseSessionsDone ==
    /\ close_pc = "await_sessions"
    /\ close_pending = {}
    /\ AcloseCommit(AcloseFinish(State, Append(close_log, "sessions_done")))
    /\ UNCHANGED <<closeFrame, idleVars>>

\* --------------------------------------------------------------- SpecClose
\* The supervisor with its shutdown: the notifications, tasks and idle check
\* of Spec, and the steps of aclose once the job shuts down. The runs are
\* those with no utterance, with notifications from the moment the room is
\* connected until the shutdown begins, and with a shutdown that takes less
\* than a tick of the clock.
BeforeShutdown == ep_pc = "running" /\ close_pc = "none"

AcloseStep ==
    \/ AcloseIdleStopped
    \/ AcloseTasksDone
    \/ AcloseSessionsDone

NextClose ==
    \/ EntrypointStart
    \/ EntrypointConnected
    \/ \E p \in Participants : BeforeShutdown /\ ParticipantConnected(p)
    \/ \E p \in Participants : BeforeShutdown /\ ParticipantDisconnected(p)
    \/ \E kind \in TrackKinds, p \in Participants : BeforeShutdown /\ TrackSubscribed(kind, p)
    \/ \E i \in DOMAIN tasks : StartSessionRun(i)
    \/ \E i \in DOMAIN tasks : SessionStartCompleted(i)
    \/ \E i \in DOMAIN tasks : SessionStartFailed(i)
    \/ \E i \in DOMAIN tasks : OnSessionStarted(i)
    \/ \E i \in DOMAIN tasks : CloseSessionRun(i)
    \/ \E i \in DOMAIN tasks : CloseSessionDone(i)
    \/ IdleCheck
    \/ IdleCloseResume
    \/ (close_pc = "none" /\ Tick)
    \/ AcloseCancelIdle
    \/ AcloseStep
    \/ \E i \in DOMAIN tasks : TaskCancelled(i)
    \/ \E session \in DOMAIN agent_sessions : AcloseSessionClosed(session)
    \/ \E session \in DOMAIN agent_sessions : AcloseSessionCloseFailed(session)

\* What aclose awaits comes to an end, and aclose runs when it can.
CloseFairness ==
    /\ WF_vars(AcloseStep)
    /\ WF_vars(\E i \in DOMAIN tasks : TaskCancelled(i))
    /\ WF_vars(\E session \in DOMAIN agent_sessions : AcloseSessionClosed(session) \/ AcloseSessionCloseFailed(session))

SpecClose == Init /\ [][NextClose]_vars /\ CloseFairness

\* ------------------------------------------- the room during and after aclose
\* The room goes on notifying while aclose runs and after it has returned:
\* a handler runs as long as start's room.on (lines 335-338) has not been
\* undone by a room.off (lines 480-481).
LateParticipantConnected(p) == close_pc # "none" /\ ParticipantConnected(p)

LateParticipantDisconnected(p) == close_pc # "none" /\ ParticipantDisconnected(p)

LateTrackSubscribed(kind, p) == close_pc # "none" /\ TrackSubscribed(kind, p)

NextShutdown ==
    \/ NextClose
    \/ \E p \in Participants : LateParticipantConnected(p)
    \/ \E p \in Participants : LateParticipantDisconnected(p)
    \/ \E kind \in TrackKinds, p \in Participants : LateTrackSubscribed(kind, p)

SpecShutdown == Init /\ [][NextShutdown]_vars

\* ----------------------------------------------------------- claims on aclose
\* The steps of aclose, in the order the claim gives them.
CloseSteps == <<"cancel_idle", "idle_stopped", "cancel_tasks", "tasks_done", "close_sessions", "sessions_done", "detach", "finalize">>
StepRank(step) == CHOOSE k \in 1..Len(CloseSteps) : CloseSteps[k] = step
Logged(step) == \E k \in 1..Len(close_log) : close_log[k] = step
ActiveSessions == {sessions[p] : p \in DOMAIN sessions}
StoreFinalized == txt_handle = "None" /\ json_handle = "None" /\ JsonLines # << >> /\ IsFooter(JsonLines[Len(JsonLines)])

\* Each step taken comes after the steps before it in the order, the idle
\* check has stopped before any session is closed, and finalize comes with
\* the detaching done and every gathered close over.
C11_Order ==
    /\ \A i, j \in 1..Len(close_log) : i < j => StepRank(close_log[i]) < StepRank(close_log[j])
    /\ (Logged("tasks_done") \/ Logged("close_sessions") \/ Logged("detach")) => (Logged("idle_stopped") /\ idle_pc = "stopped")
    /\ Logged("finalize") <=> close_pc = "done"
    /\ Logged("finalize") => (Logged("detach") /\ close_pending = {} /\ StoreFinalized /\ "participant_connected" \notin listeners /\ "participant_disconnected" \notin listeners)
    /\ ~Logged("detach") => (~Finalized /\ (close_pc # "none" => "participant_connected" \in listeners))

\* The steps aclose takes, one by one.
C11_Steps ==
    /\ (~Logged("close_sessions") /\ Logged("close_sessions")') => (close_pending' = ActiveSessions /\ \A s \in ActiveSessions : agent_sessions'[s].state # "running")
    /\ \A s \in DOMAIN agent_sessions : AcloseSessionCloseFailed(s) => (close_pc' = close_pc /\ close_pending' = close_pending \ {s} /\ ~Finalized')
    /\ close_pc # "none" => ~(IdleCheck \/ IdleCloseResume)

C24_IdleCancelledAtSleep ==
    /\ [][(idle_pc # "stopped" /\ idle_pc' = "stopped") => idle_pc = "sleep"]_vars
    /\ [](idle_pc = "stopped" => (idle_info = << >> /\ idle_closing = NoSession))
    /\ []((close_pc = "done" /\ idle_closing # NoSession) => agent_sessions[idle_closing].state = "closed")

\* C25: aclose cancels no session close begun by a leave: none of these
\* tasks is ever cancelled, each has completed when the store is finalized,
\* and no failure of a close is raised out of aclose.
C25_InFlightClosesAwaited ==
    /\ [](\A i \in DOMAIN tasks : tasks[i].kind = "close" => tasks[i].state # "cancelled")
    /\ [](close_pc = "done" => \A i \in DOMAIN tasks : tasks[i].kind # "close")
    /\ [](close_pc = "done" => \A k \in DOMAIN agent_sessions : k \notin ActiveSessions => agent_sessions[k].state \notin {"running", "closing"})
    /\ [](close_pc # "raised")

\* A step that creates a session-start task or a session.
StartsSession == task_seq' # task_seq \/ Len(agent_sessions') # Len(agent_sessions)

\* C26: when aclose has completed, none of the four notifications start
\* subscribed to is listened to any more, and no notification that arrives
\* while aclose awaits the session closes, or after aclose, starts a session.
C26_DetachedAfterClose ==
    /\ [](close_pc = "done" => listeners \cap RoomNotifications = {})
    /\ [][(close_pc \in {"await_sessions", "done"}) => ~StartsSession]_vars

\* ------------------------------------------------------ repair_transcripts
\* Times are seconds from 2026-01-29 00:00:00, the date of SESSION_START_STR;
\* a time of day HH:MM:SS is the seconds from midnight.
SESSION_START == 19 * 3600 + 52 * 60 + 22
SESSION_END == 23 * 3600 + 15 * 60
GapThreshold == 60
SynthesizedFooter == [type |-> "footer", ended_at |-> 23 * 3600 + 13 * 60 + 30]

\* line.startswith("2026-01-29")
OnSessionDate(date_time) == date_time >= 0 /\ date_time < SecondsPerDay

\* " ".join(words) and "".join(words)
RECURSIVE JoinWords(_, _)
JoinWords(words, sep) ==
    IF words = << >> THEN << >>
    ELSE IF Len(words) = 1 THEN words[1]
    ELSE words[1] \o sep \o JoinWords(Tail(words), sep)

\* A line of the log, as the two patterns of parse_log_line see it: form
\* says which pattern matches ("other": neither), the fields are the groups.
LogLine(form, date_time, short_time, participant, rest) == [form |-> form, date_time |-> date_time, short_time |-> short_time, participant |-> participant, rest |-> rest]

NoMatch == [type |-> "None"]

parse_log_line(line) ==
    IF line.form = "transcript"
    THEN [type |-> "transcript", datetime |-> line.date_time, timestamp |-> line.short_time, participant |-> strip(line.participant), text |-> strip(line.rest), word_count |-> Len(split(strip(line.rest)))]
    ELSE IF line.form = "event"
    THEN [type |-> "event", datetime |-> line.date_time, timestamp |-> get_timestamp(line.date_time), participant |-> strip(line.participant), event |-> IF line.rest = "connected" THEN "joined" ELSE "left"]
    ELSE NoMatch

\* The signature with the text of a transcript taken as it is.
get_signature_RawText(evt) ==
    <<evt.timestamp, "_", evt.type, "_">> \o evt.participant \o <<"_">> \o (IF evt.type = "transcript" THEN evt.text ELSE <<evt.event>>)

\* "_".join([ts, etype, participant, norm_text or event])
get_signature(evt) ==
    <<evt.timestamp, "_", evt.type, "_">> \o evt.participant \o <<"_">> \o (IF evt.type = "transcript" THEN JoinWords(split(evt.text), << >>) ELSE <<evt.event>>)

\* Lines 100-110: the header and the footer seen last, and the other records.
NoRecord == [type |-> "None"]
RECURSIVE LastOfType(_, _)
LastOfType(events, type) ==
    IF events = << >> THEN NoRecord
    ELSE IF events[Len(events)].type = type THEN events[Len(events)]
    ELSE LastOfType(SubSeq(events, 1, Len(events) - 1), type)
core_existing_events(existing_events) == SelectSeq(existing_events, LAMBDA evt : evt.type \notin {"header", "footer"})
existing_signatures(existing_events) == {get_signature(core_existing_events(existing_events)[i]) : i \in DOMAIN core_existing_events(existing_events)}

\* list.sort(key=...): a stable sort of pairs <<key, event>> by key.
RECURSIVE InsertSorted(_, _)
InsertSorted(sorted, x) ==
    IF sorted = << >> THEN <<x>>
    ELSE IF sorted[Len(sorted)][1] <= x[1] THEN Append(sorted, x)
    ELSE Append(InsertSorted(SubSeq(sorted, 1, Len(sorted) - 1), x), sorted[Len(sorted)])
RECURSIVE SortByKey(_)
SortByKey(pairs) == IF pairs = << >> THEN << >> ELSE InsertSorted(SortByKey(SubSeq(pairs, 1, Len(pairs) - 1)), pairs[Len(pairs)])

\* A timestamp that is missing, or that strptime refuses.
NoTimestamp == -1

\* if ts_str: try: strptime(ts_str, "%H:%M:%S")
HasTime(evt) == evt.timestamp \in 0..(SecondsPerDay - 1)
Timed(core) == SelectSeq(core, HasTime)

\* Lines 114-128: the core records with their time on the base date, sorted.
sorted_existing(core) == SortByKey([i \in DOMAIN Timed(core) |-> <<Timed(core)[i].timestamp, Timed(core)[i]>>])

\* The gaps with an interval of the threshold counted as one.
RECURSIVE GapsFrom_Inclusive(_, _)
GapsFrom_Inclusive(sorted, i) ==
    IF i >= Len(sorted) THEN << >>
    ELSE (IF sorted[i + 1][1] - sorted[i][1] >= GapThreshold THEN <<<<sorted[i][1], sorted[i + 1][1]>>>> ELSE << >>) \o GapsFrom_Inclusive(sorted, i + 1)

\* Lines 130-140: the gaps, in order.
RECURSIVE GapsFrom(_, _)
GapsFrom(sorted, i) ==
    IF i >= Len(sorted) THEN << >>
    ELSE (IF sorted[i + 1][1] - sorted[i][1] > GapThreshold THEN <<<<sorted[i][1], sorted[i + 1][1]>>>> ELSE << >>) \o GapsFrom(sorted, i + 1)
gaps(core) == GapsFrom(sorted_existing(core), 1)

\* A time at an end of a gap counted as inside it.
in_gap_Inclusive(gs, evt_full_dt) == \E k \in DOMAIN gs : gs[k][1] <= evt_full_dt /\ evt_full_dt <= gs[k][2]

\* Lines 163-169
in_gap(gs, evt_full_dt) == \E k \in DOMAIN gs : gs[k][1] < evt_full_dt /\ evt_full_dt < gs[k][2]

\* The candidate taken as it was parsed.
Cleaned_AsParsed(parsed) == parsed

\* Lines 179-181: the text with its whitespace runs collapsed, and its words counted again.
Cleaned(parsed) ==
    IF parsed.type = "transcript"
    THEN [parsed EXCEPT !.text = JoinWords(split(parsed.text), <<" ">>), !.word_count = Len(split(JoinWords(split(parsed.text), <<" ">>)))]
    ELSE parsed

\* Lines 150-186: the loop over the lines of the log; restored_events so far
\* in acc, with the signatures in sigs.
RECURSIVE RestoreLoop(_, _, _, _, _)
RestoreLoop(lines, gs, existing_sigs, acc, sigs) ==
    IF lines = << >> THEN acc
    ELSE LET line == Head(lines)
             parsed == parse_log_line(line)
             skip == RestoreLoop(Tail(lines), gs, existing_sigs, acc, sigs)
         IN IF ~OnSessionDate(line.date_time) THEN skip
            ELSE IF parsed = NoMatch THEN skip
            ELSE IF ~(SESSION_START <= parsed.datetime /\ parsed.datetime <= SESSION_END) THEN skip
            ELSE IF ~in_gap(gs, parsed.datetime) THEN skip
            ELSE IF get_signature(parsed) \in existing_sigs \/ get_signature(parsed) \in sigs THEN skip
            ELSE RestoreLoop(Tail(lines), gs, existing_sigs, Append(acc, Cleaned(parsed)), sigs \cup {get_signature(parsed)})

restored_events(existing_events, log) == RestoreLoop(log, gaps(core_existing_events(existing_events)), existing_signatures(existing_events), << >>, {})

\* del evt['datetime']
WithoutDatetime(evt) == [f \in (DOMAIN evt) \ {"datetime"} |-> evt[f]]

\* Lines 194-221: existing and restored events with their sort key, sorted.
all_events(existing_events, log) ==
    LET core == Timed(core_existing_events(existing_events))
        restored == restored_events(existing_events, log)
        keyed == [i \in DOMAIN core |-> <<core[i].timestamp, core[i]>>] \o [i \in DOMAIN restored |-> <<restored[i].datetime, WithoutDatetime(restored[i])>>]
        sorted == SortByKey(keyed)
    IN [i \in DOMAIN sorted |-> sorted[i][2]]

\* The stream with the footer of the input, or without a footer.
repaired_jsonl_NoSynthesizedFooter(existing_events, log) ==
    LET header == LastOfType(existing_events, "header")
        footer == LastOfType(existing_events, "footer")
    IN (IF header # NoRecord THEN <<header>> ELSE << >>) \o all_events(existing_events, log) \o (IF footer # NoRecord THEN <<footer>> ELSE << >>)

\* Lines 223-237: the repaired structured stream.
repaired_jsonl(existing_events, log) ==
    LET header == LastOfType(existing_events, "header")
        footer == LastOfType(existing_events, "footer")
    IN (IF header # NoRecord THEN <<header>> ELSE << >>) \o all_events(existing_events, log) \o (IF footer # NoRecord THEN <<footer>> ELSE <<SynthesizedFooter>>)

\* -------------------------------------------------------------- SpecRepair
\* The sequences over S of length n at most.
SeqsUpTo(S, n) == UNION {[1..k -> S] : k \in 0..n}

\* The times of the records and lines: a minute and a half and half a minute
\* before the session starts, its start, and a minute and a half into it.
RepairTimes == {SESSION_START - 90, SESSION_START - 30, SESSION_START, SESSION_START + 90}
RepairName == <<"A">>

\* The records between header and footer: the ones the store writes, and one
\* that has lost its timestamp.
CoreRecords ==
    {JsonTranscriptEntry(t, RepairName, <<"a", " ", "b">>) : t \in RepairTimes}
    \cup {JsonEventEntry(t, RepairName, "joined") : t \in RepairTimes}
    \cup {JsonEventEntry(NoTimestamp, RepairName, "joined")}

\* The streams the repair is given: a header or none, core records, a footer
\* or none; and the streams of two recordings written one after the other.
ExistingStreams ==
    {h \o c \o f : h \in {<< >>, <<JsonHeader(SESSION_START)>>}, c \in SeqsUpTo(CoreRecords, MaxCore), f \in {<< >>, <<JsonFooter(SESSION_START + 90)>>}}
    \cup {<<JsonHeader(SESSION_START - 90)>> \o c \o <<JsonFooter(SESSION_START - 30), JsonHeader(SESSION_START), JsonFooter(SESSION_START + 90)>> : c \in SeqsUpTo(CoreRecords, 1)}

\* The lines of the log: transcript lines (one of them logged a second after
\* its time was read, one with the two words written as one), participant
\* lines, a line of neither form, and a transcript line of the day before.
LogLines ==
    {LogLine("transcript", t, get_timestamp(t), RepairName, <<"a", " ", " ", "b", " ">>) : t \in RepairTimes}
    \cup {LogLine("transcript", SESSION_START, get_timestamp(SESSION_START - 1), RepairName, <<"a", " ", " ", "b", " ">>)}
    \cup {LogLine("transcript", SESSION_START, get_timestamp(SESSION_START), RepairName, <<"a", "b">>)}
    \cup {LogLine("event", t, get_timestamp(t), RepairName, "connected") : t \in RepairTimes}
    \cup {LogLine("event", SESSION_START, get_timestamp(SESSION_START), <<"A", " ">>, "disconnected")}
    \cup {LogLine("other", SESSION_START, get_timestamp(SESSION_START), RepairName, << >>)}
    \cup {LogLine("transcript", SESSION_START - SecondsPerDay, get_timestamp(SESSION_START), RepairName, <<"a", " ", " ", "b", " ">>)}

\* A log is written in the order of time, and the time in a transcript line
\* was read after the line before it was logged.
Chronological(log) ==
    \A i \in 2..Len(log) :
        /\ log[i - 1].date_time <= log[i].date_time
        /\ log[i].date_time - (get_timestamp(log[i].date_time) - log[i].short_time) >= log[i - 1].date_time

Logs == {log \in SeqsUpTo(LogLines, MaxLog) : Chronological(log)}

InitRepair ==
    /\ config \in SupervisorConfigs
    /\ now = StartTime
    /\ NewStore
    /\ NewSupervisor
    /\ ep_pc = "boot"
    /\ remote_participants = << >>
    /\ api_calls = << >>
    /\ thr = [t \in Threads |-> [pc |-> "idle"]]
    /\ jsonl_file \in ExistingStreams
    /\ log_file \in Logs
    /\ repaired_jsonl_file = NoFile
    /\ repair_runs = 0

repairFrame == <<config, now, storeVars, last_speech_time, api_calls, thr, supVars>>

\* main: the repaired stream is written in full.
RunRepair ==
    /\ repair_runs < MaxRepairRuns
    /\ ~repaired_jsonl_file.exists
    /\ repaired_jsonl_file' = [exists |-> TRUE, data |-> repaired_jsonl(jsonl_file, log_file)]
    /\ repair_runs' = repair_runs + 1
    /\ UNCHANGED <<repairFrame, jsonl_file, log_file>>

\* The repaired stream is given to the repair as its input, with the same log.
RepairOutput ==
    /\ repaired_jsonl_file.exists
    /\ repair_runs < MaxRepairRuns
    /\ jsonl_file' = repaired_jsonl_file.data
    /\ repaired_jsonl_file' = NoFile
    /\ UNCHANGED <<repairFrame, log_file, repair_runs>>

NextRepair == RunRepair \/ RepairOutput

SpecRepair == InitRepair /\ [][NextRepair]_vars

\* ------------------------------------------------------ claims on the repair
Repaired == repaired_jsonl_file.exists
Output == repaired_jsonl_file.data
Core == core_existing_events(jsonl_file)
Restored == restored_events(jsonl_file, log_file)
Merged == all_events(jsonl_file, log_file)

CoreTimes == {Core[i].timestamp : i \in DOMAIN Core} \ {NoTimestamp}
ConsecutiveFarApart == {pair \in CoreTimes \X CoreTimes : pair[2] - pair[1] > 60 /\ ~\E c \in CoreTimes : pair[1] < c /\ c < pair[2]}
At(t) == JsonEventEntry(t, RepairName, "joined")

\* C13: the gaps are exactly the pairs of consecutive records, in the order
\* of their timestamps, that are more than 60 seconds apart; records 120 s
\* apart give the gap, records 30 s or 60 s apart give none.
C13_GapDetection ==
    /\ {gaps(Core)[k] : k \in DOMAIN gaps(Core)} = ConsecutiveFarApart
    /\ Len(gaps(Core)) = Cardinality(ConsecutiveFarApart)
    /\ gaps(<<At(36000), At(36120)>>) = <<<<36000, 36120>>>>
    /\ gaps(<<At(36000), At(36030)>>) = << >>
    /\ gaps(<<At(36000), At(36060)>>) = << >>

\* The stream holds two records 120 s apart, the later one first, and has
\* the one gap.
C13_Witness ==
    /\ Repaired
    /\ repair_runs = 1
    /\ Len(Core) = 2
    /\ Core[1].timestamp = SESSION_START + 90
    /\ Core[2].timestamp = SESSION_START - 30
    /\ gaps(Core) = <<<<SESSION_START - 30, SESSION_START + 90>>>>

\* The lines of the log before line i, and what the scan of them recovered.
Earlier(i) == SubSeq(log_file, 1, i - 1)
RecoveredBefore(i) == restored_events(jsonl_file, Earlier(i))
SignaturesOf(events) == {get_signature(events[k]) : k \in DOMAIN events}
Candidate(i) == parse_log_line(log_file[i])
IsCandidate(i) == OnSessionDate(log_file[i].date_time) /\ Candidate(i) # NoMatch
WithinSession(t) == SESSION_START <= t /\ t <= SESSION_END
StrictlyInsideGap(t) == \E k \in DOMAIN gaps(Core) : gaps(Core)[k][1] < t /\ t < gaps(Core)[k][2]

\* The four conditions of admission, for the candidate of line i.
Admissible(i) ==
    /\ WithinSession(Candidate(i).datetime)
    /\ StrictlyInsideGap(Candidate(i).datetime)
    /\ get_signature(Candidate(i)) \notin existing_signatures(jsonl_file)
    /\ get_signature(Candidate(i)) \notin SignaturesOf(RecoveredBefore(i))

\* C14: the candidate of a line is added to the recovered records if and
\* only if its time is within the session bound, strictly inside a gap, and
\* its signature is neither among the existing records nor among the records
\* recovered earlier in the run; so no two recovered records, and no
\* recovered and existing record, share a signature.
C14_RecoveryAdmission ==
    /\ \A i \in DOMAIN log_file :
          LET added == Len(restored_events(jsonl_file, SubSeq(log_file, 1, i))) - Len(RecoveredBefore(i))
          IN /\ added \in {0, 1}
             /\ added = 1 <=> (IsCandidate(i) /\ Admissible(i))
    /\ \A k, l \in DOMAIN Restored : k # l => get_signature(Restored[k]) # get_signature(Restored[l])
    /\ SignaturesOf(Restored) \cap existing_signatures(jsonl_file) = {}

\* One line of the log was admitted, and one was refused though it lies
\* strictly inside a gap and its signature is new: it is before the session.
C14_Witness ==
    /\ Repaired
    /\ repair_runs = 1
    /\ Len(log_file) = 2
    /\ Len(Restored) = 1
    /\ \E i \in DOMAIN log_file :
          /\ IsCandidate(i)
          /\ StrictlyInsideGap(Candidate(i).datetime)
          /\ ~WithinSession(Candidate(i).datetime)
          /\ get_signature(Candidate(i)) \notin existing_signatures(jsonl_file)

\* The whitespace-separated words of a text begin where a character that is
\* not whitespace is first or follows whitespace.
WordStarts(text) == {k \in DOMAIN text : text[k] \notin Whitespace /\ (k = 1 \/ text[k - 1] \in Whitespace)}
Letters(text) == SelectSeq(text, LAMBDA c : c \notin Whitespace)

\* collapsed is the text with its whitespace runs collapsed and its ends trimmed.
IsCollapsed(collapsed, text) ==
    /\ Letters(collapsed) = Letters(text)
    /\ Cardinality(WordStarts(collapsed)) = Cardinality(WordStarts(text))
    /\ \A k \in DOMAIN collapsed : collapsed[k] \in Whitespace => (collapsed[k] = " " /\ k > 1 /\ k < Len(collapsed) /\ collapsed[k - 1] \notin Whitespace)

\* The record a transcript line is to yield is in the events.
YieldsRecord(line, events) ==
    \E k \in DOMAIN events :
        /\ events[k].type = "transcript"
        /\ DOMAIN events[k] = {"type", "timestamp", "participant", "text", "word_count"}
        /\ events[k].timestamp = line.short_time
        /\ events[k].participant = strip(line.participant)
        /\ IsCollapsed(events[k].text, line.rest)
        /\ events[k].word_count = Cardinality(WordStarts(line.rest))

\* The line of the example at the date and the time given, between records
\* at 00:00 and 02:00 of the same minute count.
ExampleLine(date_time) == LogLine("transcript", date_time, get_timestamp(date_time), <<"A", "l", "i", "c", "e">>, <<"h", "e", "l", "l", "o", " ", "w", "o", "r", "l", "d">>)
ExampleRecord(time) == [type |-> "transcript", timestamp |-> time, participant |-> <<"A", "l", "i", "c", "e">>, text |-> <<"h", "e", "l", "l", "o", " ", "w", "o", "r", "l", "d">>, word_count |-> 2]
ExampleOutput(time, date_time) == repaired_jsonl(<<At(time), At(time + 120)>>, <<ExampleLine(date_time)>>)
TenOClock == 10 * 3600
EightOClock == 20 * 3600
DaysTo2024 == 366 + 365 + 28

\* C15, as stated: a transcript line inside a gap whose signature is not
\* among the existing ones yields its record; so does the line of
\* 2024-01-01 10:00:05 between records of 10:00:00 and 10:02:00.
C15_LineYieldsRecord_AsStated ==
    Repaired =>
        /\ \A i \in DOMAIN log_file :
              (/\ log_file[i].form = "transcript"
               /\ StrictlyInsideGap(log_file[i].date_time)
               /\ get_signature(parse_log_line(log_file[i])) \notin existing_signatures(jsonl_file))
              => YieldsRecord(log_file[i], Output)
        /\ ExampleOutput(TenOClock, TenOClock + 5 - DaysTo2024 * SecondsPerDay) = <<At(TenOClock), ExampleRecord(TenOClock + 5), At(TenOClock + 120), SynthesizedFooter>>

\* C15: a transcript line of the session date, within the session bound,
\* inside a gap, whose signature is neither among the existing ones nor
\* among those recovered earlier in the run, yields a record with the
\* bracketed time, the trimmed name, the text with whitespace runs collapsed
\* and ends trimmed, and the number of its words; so does the line of
\* 2026-01-29 20:00:05 between records of 20:00:00 and 20:02:00.
C15_LineYieldsRecord ==
    Repaired =>
        /\ \A i \in DOMAIN log_file :
              (/\ log_file[i].form = "transcript"
               /\ IsCandidate(i)
               /\ Admissible(i))
              => YieldsRecord(log_file[i], Output)
        /\ ExampleOutput(EightOClock, EightOClock + 5) = <<At(EightOClock), ExampleRecord(EightOClock + 5), At(EightOClock + 120), SynthesizedFooter>>

\* The first run has recovered the record of a transcript line written with
\* runs of whitespace.
C15_Witness ==
    /\ Repaired
    /\ repair_runs = 1
    /\ \E i \in DOMAIN log_file :
          /\ log_file[i].form = "transcript"
          /\ IsCandidate(i)
          /\ Admissible(i)
          /\ Len(log_file[i].rest) = 5
          /\ YieldsRecord(log_file[i], Output)

\* The records of a sequence that bear the timestamp t, in their order.
With(events, t) == SelectSeq(events, LAMBDA evt : evt.timestamp = t)
OutputCore == core_existing_events(Output)
RecoveredRecords == [k \in DOMAIN Restored |-> WithoutDatetime(Restored[k])]
MergeTimes == {Core[k].timestamp : k \in DOMAIN Core} \cup {Restored[k].timestamp : k \in DOMAIN Restored} \cup {OutputCore[k].timestamp : k \in DOMAIN OutputCore}

\* C16: the core of the output holds every existing core record and every
\* recovered record, each once and none dropped, in ascending order of
\* timestamp; records of one timestamp are the existing ones in their order
\* and then the recovered ones in theirs.
C16_MergeKeepsAll ==
    Repaired =>
        /\ \A k, l \in DOMAIN OutputCore : k < l => OutputCore[k].timestamp <= OutputCore[l].timestamp
        /\ \A t \in MergeTimes : With(OutputCore, t) = With(Core, t) \o With(RecoveredRecords, t)

\* C17: the output is the header of the input if it had one, then records
\* that are neither header nor footer, then one footer: that of the input
\* if it had one, otherwise the synthesized one.
C17_OutputShape ==
    Repaired =>
        LET headers == SelectSeq(jsonl_file, LAMBDA evt : evt.type = "header")
            footers == SelectSeq(jsonl_file, LAMBDA evt : evt.type = "footer")
            first == IF headers = << >> THEN 1 ELSE 2
        IN /\ Len(Output) >= first
           /\ Output[Len(Output)] = (IF footers = << >> THEN SynthesizedFooter ELSE footers[Len(footers)])
           /\ Output[Len(Output)].type = "footer"
           /\ headers # << >> => Output[1] = headers[Len(headers)]
           /\ \A k \in first..(Len(Output) - 1) : Output[k].type \notin {"header", "footer"}
           /\ Len(SelectSeq(Output, LAMBDA evt : evt.type = "footer")) = 1
           /\ Len(SelectSeq(Output, LAMBDA evt : evt.type = "header")) = (IF headers = << >> THEN 0 ELSE 1)

\* The first run was given a header, core records and no footer, recovered
\* a record, and wrote the synthesized footer last.
C17_Witness ==
    /\ Repaired
    /\ repair_runs = 1
    /\ LastOfType(jsonl_file, "header") # NoRecord
    /\ LastOfType(jsonl_file, "footer") = NoRecord
    /\ Len(Restored) >= 1
    /\ Output[Len(Output)] = SynthesizedFooter
    /\ Len(Output) = Len(jsonl_file) + Len(Restored) + 1

\* --------------------------------------- claims on what the repair leaves
\* The gaps of the input of the run and of its output.
InputGaps == gaps(Core)
OutputGaps == gaps(OutputCore)

\* The candidate of line i of the log lies in the session and strictly
\* inside the gap g.
CandidateInside(i, g) ==
    /\ IsCandidate(i)
    /\ WithinSession(Candidate(i).datetime)
    /\ g[1] < Candidate(i).datetime /\ Candidate(i).datetime < g[2]

SigTimes == {SESSION_START, SESSION_START + 90}
SigNames == {<<"A">>, <<"A", "_", "b">>}
SigTexts == {<<"c">>, <<"b", "_", "c">>, <<"b", " ", "c">>, <<"b", "c">>}
SigRecords ==
    {JsonTranscriptEntry(t, n, x) : t \in SigTimes, n \in SigNames, x \in SigTexts}
    \cup {JsonEventEntry(t, n, e) : t \in SigTimes, n \in SigNames, e \in {"joined", "left"}}

InitSignature ==
    /\ config \in SupervisorConfigs
    /\ now = StartTime
    /\ NewStore
    /\ NewSupervisor
    /\ ep_pc = "boot"
    /\ remote_participants = << >>
    /\ api_calls = << >>
    /\ thr = [t \in Threads |-> [pc |-> "idle"]]
    /\ jsonl_file \in [1..2 -> SigRecords]
    /\ log_file = << >>
    /\ repaired_jsonl_file = NoFile
    /\ repair_runs = 0

\* Lines 100-110: the signature of each core record is taken, in file order.
TakeSignatures ==
    /\ api_calls = << >>
    /\ api_calls' = [i \in DOMAIN core_existing_events(jsonl_file) |-> get_signature(core_existing_events(jsonl_file)[i])]
    /\ UNCHANGED <<config, now, storeVars, last_speech_time, thr, supVars, repairVars>>

NextSignature == TakeSignatures

SpecSignature == InitSignature /\ [][NextSignature]_vars

\* The components of a signature as the specification lists them.
NormalizedPayload(evt) == IF evt.type = "transcript" THEN JoinWords(split(evt.text), << >>) ELSE <<evt.event>>
Components(evt) == <<evt.timestamp, evt.type, evt.participant, NormalizedPayload(evt)>>

\* C35: two records have the same signature only if they have the same
\* timestamp, type, participant and normalized payload.
C35_SignatureInjective ==
    api_calls # << >> =>
        \A i, j \in DOMAIN api_calls : api_calls[i] = api_calls[j] => Components(jsonl_file[i]) = Components(jsonl_file[j])

\* ------------------------------------------- the repaired text form (TXT)
\* Lines 243-247: the head of the text form.
RepairedTxtHeader(header) ==
    [fmt |-> "header", room |-> "room",
     started_at |-> IF header # NoRecord THEN header.started_at ELSE SESSION_START,
     stt_provider |-> IF header # NoRecord THEN header.stt_provider ELSE "deepgram"]

\* Lines 249-261: what the loop writes for one record: a line, or nothing.
RepairedTxtLine(evt) ==
    IF evt.type = "event"
    THEN IF evt.event = "joined" THEN <<[fmt |-> "joined", timestamp |-> evt.timestamp, participant |-> evt.participant]>>
         ELSE IF evt.event = "left" THEN <<[fmt |-> "left", timestamp |-> evt.timestamp, participant |-> evt.participant]>>
         ELSE << >>
    ELSE IF evt.type = "transcript" THEN <<TxtTranscriptLine(evt.timestamp, evt.participant, strip(evt.text))>>
    ELSE << >>

RECURSIVE RepairedTxtLines(_)
RepairedTxtLines(events) == IF events = << >> THEN << >> ELSE RepairedTxtLine(Head(events)) \o RepairedTxtLines(Tail(events))

\* Lines 266-280: the statistics counted from the transcript records.
RECURSIVE RepairedStats(_, _)
RepairedStats(events, acc) ==
    IF events = << >> THEN acc
    ELSE LET evt == Head(events)
         IN IF evt.type # "transcript" THEN RepairedStats(Tail(events), acc)
            ELSE LET old == IF evt.participant \in DOMAIN acc.participants THEN acc.participants[evt.participant] ELSE [word_count |-> 0, turn_count |-> 0]
                 IN RepairedStats(Tail(events),
                        [total_turns |-> acc.total_turns + 1,
                         total_words |-> acc.total_words + evt.word_count,
                         participants |-> DictSet(acc.participants, evt.participant, [word_count |-> old.word_count + evt.word_count, turn_count |-> old.turn_count + 1])])

\* Lines 263-290: the foot of the text form.
RepairedTxtFooter(events) ==
    LET st == RepairedStats(events, [total_turns |-> 0, total_words |-> 0, participants |-> << >>])
    IN [fmt |-> "footer", ended_at |-> SynthesizedFooter.ended_at,
        statistics |-> <<[total_participants |-> Cardinality(DOMAIN st.participants), total_turns |-> st.total_turns, total_words |-> st.total_words, participants |-> st.participants]>>]

\* Lines 239-290: the repaired text form.
repaired_txt(existing_events, log) ==
    <<RepairedTxtHeader(LastOfType(existing_events, "header"))>>
    \o RepairedTxtLines(all_events(existing_events, log))
    \o <<RepairedTxtFooter(all_events(existing_events, log))>>

\* ---------------------------------------------------------------- SpecRender
\* The streams of a live store with records of every kind it writes, and the
\* repair run on them with a log of one line at most.
MaxRenderCore == 2
RenderTimes == {SESSION_START - 30, SESSION_START + 90}
RenderRecords ==
    {JsonTranscriptEntry(t, RepairName, <<"a", " ", "b">>) : t \in RenderTimes}
    \cup {JsonEventEntry(t, RepairName, e) : t \in RenderTimes, e \in EventTypes}
RenderStreams == {h \o c \o f : h \in {<< >>, <<JsonHeader(SESSION_START)>>}, c \in SeqsUpTo(RenderRecords, MaxRenderCore), f \in {<< >>, <<JsonFooter(SESSION_START + 90)>>}}
RenderLogs == {log \in Logs : Len(log) <= 1}

InitRender ==
    /\ config \in SupervisorConfigs
    /\ now = StartTime
    /\ NewStore
    /\ NewSupervisor
    /\ ep_pc = "boot"
    /\ remote_participants = << >>
    /\ api_calls = << >>
    /\ thr = [t \in Threads |-> [pc |-> "idle"]]
    /\ jsonl_file \in RenderStreams
    /\ log_file \in RenderLogs
    /\ repaired_jsonl_file = NoFile
    /\ repair_runs = 0

\* main: the repaired stream and the repaired text form are written; the
\* text form is kept where the store's text sink is.
RunRepairBoth ==
    /\ repair_runs = 0
    /\ repaired_jsonl_file' = [exists |-> TRUE, data |-> repaired_jsonl(jsonl_file, log_file)]
    /\ files' = [files EXCEPT !["txt"] = [exists |-> TRUE, data |-> [i \in DOMAIN repaired_txt(jsonl_file, log_file) |-> Chunk(repaired_txt(jsonl_file, log_file)[i], "whole")]]]
    /\ repair_runs' = 1
    /\ UNCHANGED <<config, now, initialized, txt_handle, json_handle, buffers, stats, write_lock, sink_opens, sink_closes, last_speech_time, api_calls, thr, supVars, jsonl_file, log_file>>

NextRender == RunRepairBoth

SpecRender == InitRender /\ [][NextRender]_vars

\* The line the live store writes for a record (lines 670 and 691-698).
LiveTxtLine(evt) ==
    IF evt.type = "transcript" THEN TxtTranscriptLine(evt.timestamp, evt.participant, evt.text)
    ELSE TxtEventLine(evt.timestamp, evt.participant, evt.event)

\* The lines of the repaired text form between its head and its foot.
RepairedCoreLines == SelectSeq(TxtLines, LAMBDA l : l.fmt \notin {"header", "footer"})

\* C32: the repaired text form holds, for every core record of the repaired
\* structured stream and in the same order, the line the live store writes
\* for it: a line per transcript, a marker line per lifecycle record of any
\* of the four kinds.
C32_TextFormAsLive ==
    Repaired => RepairedCoreLines = [i \in DOMAIN OutputCore |-> LiveTxtLine(OutputCore[i])]

\* ---------------------------------------------------- ParticipantStats.to_dict
MaxWordCount == 30
MaxTurnCount == 20

\* 2^n modulo 5
Pow2Mod5(n) == <<1, 2, 4, 3>>[(n % 4) + 1]

\* The k with 2^k <= a/20 < 2^(k+1), for a/20 from 0.05 up.
BinaryExponent(a) ==
    CHOOSE k \in -5..25 :
        IF k >= 0 THEN 20 * 2^k <= a /\ a < 20 * 2^(k + 1)
        ELSE 20 <= a * 2^(0 - k) /\ a * 2^(0 - k - 1) < 20

\* Whether the float nearest to a/20, a odd and no multiple of 5, is above
\* a/20: the 53-bit significand is a * 2^(52-k) / 20 rounded to an integer,
\* and the part dropped is a * 2^(50-k) modulo 5, in fifths.
FloatIsAbove(a) == (a * Pow2Mod5(50 - BinaryExponent(a))) % 5 \in {3, 4}

\* round(x, 1) of the float x = word_count / divisor, in tenths. The float
\* is on the same side of every half tenth as the quotient; when the quotient
\* is a half tenth (2F+1)/20, the float is exact if that is a multiple of a
\* quarter, and round takes the even tenth, and otherwise round goes to the
\* side the float is on.
RoundedQuotient(word_count, divisor) ==
    LET F == (10 * word_count) \div divisor
        rem == (10 * word_count) % divisor
        a == 2 * F + 1
    IN IF 2 * rem < divisor THEN F
       ELSE IF 2 * rem > divisor THEN F + 1
       ELSE IF a % 5 = 0 THEN (IF F % 2 = 0 THEN F ELSE F + 1)
       ELSE IF FloatIsAbove(a) THEN F + 1 ELSE F

\* What an expression gives: a value, or the exception it raises.
Value(v) == [raised |-> "None", value |-> v]
ZeroDivisionError == [raised |-> "ZeroDivisionError"]

\* The divisor without the guard.
Divisor_NoGuard(turn_count) == turn_count

\* max(self.turn_count, 1)
Divisor(turn_count) == IF turn_count > 1 THEN turn_count ELSE 1

\* round(self.word_count / max(self.turn_count, 1), 1), in tenths.
avg_words_per_turn(ps) ==
    IF Divisor(ps.turn_count) = 0 THEN ZeroDivisionError
    ELSE Value(RoundedQuotient(ps.word_count, Divisor(ps.turn_count)))

\* ParticipantStats.to_dict
ParticipantStats_to_dict(ps) ==
    IF avg_words_per_turn(ps).raised # "None" THEN avg_words_per_turn(ps)
    ELSE Value([joined_at |-> ps.joined_at, left_at |-> ps.left_at, word_count |-> ps.word_count, turn_count |-> ps.turn_count, characters |-> ps.characters, avg_words_per_turn |-> avg_words_per_turn(ps).value])

\* ------------------------------------------------------------------ SpecStats
StatsName == "A"

\* A ParticipantStats with any counts, and no to_dict taken of it yet; the
\* dictionary is kept where the statistics file is.
InitStats ==
    /\ config \in SupervisorConfigs
    /\ now = StartTime
    /\ initialized = FALSE
    /\ txt_handle = "None"
    /\ json_handle = "None"
    /\ files = [f \in {"txt", "json", "stats"} |-> NoFile]
    /\ buffers = [s \in {"txt", "json"} |-> << >>]
    /\ \E w \in 0..MaxWordCount, t \in 0..MaxTurnCount :
          stats = [ProtocolStats(now) EXCEPT !.participants = DictSet(<< >>, StatsName, [ParticipantStats(NoTime) EXCEPT !.word_count = w, !.turn_count = t])]
    /\ write_lock = "free"
    /\ sink_opens = [s \in {"txt", "json"} |-> 0]
    /\ sink_closes = [s \in {"txt", "json"} |-> 0]
    /\ last_speech_time = << >>
    /\ NewSupervisor
    /\ NoRepair
    /\ ep_pc = "boot"
    /\ remote_participants = << >>
    /\ api_calls = << >>
    /\ thr = [t \in Threads |-> [pc |-> "idle"]]

statsFrame == <<config, now, initialized, txt_handle, json_handle, buffers, write_lock, sink_opens, sink_closes, last_speech_time, api_calls, thr, supVars, repairVars>>

\* stats.record_speech(identity, text), the dictionary taken before left aside.
StatsRecordSpeech ==
    /\ stats.participants[StatsName].turn_count < MaxTurnCount
    /\ \E text \in Utterances :
          /\ stats.participants[StatsName].word_count + Len(split(text)) <= MaxWordCount
          /\ stats' = record_speech(stats, StatsName, text)
    /\ files' = [files EXCEPT !["stats"] = NoFile]
    /\ UNCHANGED statsFrame

\* to_dict() of the participant's statistics.
StatsToDict ==
    /\ ~files["stats"].exists
    /\ files' = [files EXCEPT !["stats"] = [exists |-> TRUE, data |-> <<ParticipantStats_to_dict(stats.participants[StatsName])>>]]
    /\ UNCHANGED <<stats, statsFrame>>

NextStats == StatsRecordSpeech \/ StatsToDict

SpecStats == InitStats /\ [][NextStats]_vars

\* ------------------------------------------------------- claims on statistics
DictTaken == files["stats"].exists
Dict == files["stats"].data[1]
WordCount == stats.participants[StatsName].word_count
TurnCount == stats.participants[StatsName].turn_count
Turns == IF TurnCount = 0 THEN 1 ELSE TurnCount

\* C18: to_dict raises no division error, and avg_words_per_turn is a
\* multiple of a tenth nearest to word_count / max(turn_count, 1): in
\* tenths, it is an integer R with |10 * word_count / turns - R| <= 1/2;
\* for word_count = 7 and turn_count = 0 it is 7.0.
C18_AvgWordsPerTurn ==
    DictTaken =>
        /\ Dict.raised = "None"
        /\ Dict.value.avg_words_per_turn \in 0..(10 * MaxWordCount)
        /\ 20 * WordCount - 2 * Dict.value.avg_words_per_turn * Turns <= Turns
        /\ 2 * Dict.value.avg_words_per_turn * Turns - 20 * WordCount <= Turns
        /\ (WordCount = 7 /\ TurnCount = 0) => Dict.value.avg_words_per_turn = 70

\* The dictionary was taken of statistics with 7 words and no turn.
C18_Witness ==
    /\ DictTaken
    /\ WordCount = 7
    /\ TurnCount = 0
    /\ Dict.raised = "None"
    /\ Dict.value.avg_words_per_turn = 70

\* ------------------------------------------- utterance ingestion, I/O errors
\* A write or a flush of a sink's handle can raise OSError (disk full, the
\* file system gone). fault names the call that raises in one append.
IoFaults == {"none", "txt_write", "txt_flush", "json_write", "json_flush"}

MaxTurns == 2

\* The fault can happen only on a handle the append uses.
FaultApplies(S, fault) ==
    \/ fault = "none"
    \/ fault \in {"txt_write", "txt_flush"} /\ S.txt_handle = "open"
    \/ fault \in {"json_write", "json_flush"} /\ S.json_handle = "open"

\* Lines 667-684 with the call named by fault raising: what was written and
\* flushed before it stays, the rest of the block is skipped, the lock is
\* released by the with statement and the exception goes to the caller.
AppendedOrRaised(S, txt_line, json_entry, fault) ==
    LET txt == S.txt_handle = "open"
        json == S.json_handle = "open"
        b1 == IF txt /\ fault # "txt_write" THEN HandleWrite(S.buffers, "txt", txt_line) ELSE S.buffers
        txtDone == txt /\ fault \notin {"txt_write", "txt_flush"}
        f1 == IF txtDone THEN FlushedFiles(S.files, b1, "txt") ELSE S.files
        b2 == IF txtDone THEN FlushedBuffers(b1, "txt") ELSE b1
        reached == fault \notin {"txt_write", "txt_flush"}
        b3 == IF json /\ reached /\ fault # "json_write" THEN HandleWrite(b2, "json", json_entry) ELSE b2
        jsonDone == json /\ reached /\ fault \notin {"json_write", "json_flush"}
        f2 == IF jsonDone THEN FlushedFiles(f1, b3, "json") ELSE f1
        b4 == IF jsonDone THEN FlushedBuffers(b3, "json") ELSE b3
    IN [S |-> [S EXCEPT !.files = f2, !.buffers = b4],
        raised |-> IF fault = "none" THEN "None" ELSE "OSError"]

\* write_transcript, lines 658-684, under the fault.
write_transcript_io(S, timestamp, participant, text, fault) ==
    LET S1 == [S EXCEPT !.last_speech_time = OdSet(@, participant, now),
                        !.stats = IF config.enable_statistics THEN record_speech(@, participant, text) ELSE @]
    IN AppendedOrRaised(S1, TxtTranscriptLine(timestamp, participant, text), JsonTranscriptEntry(timestamp, participant, text), fault)

\* on_user_turn_completed, lines 215-246, under the fault: the object it
\* leaves, what it raises to the session that called it, and whether it
\* wrote an error to the log (line 243).
on_user_turn_completed_io(S, participant_identity, new_message, fault) ==
    IF IsEmptyTranscript(new_message) THEN [S |-> S, raised |-> "StopResponse", logged_error |-> FALSE]
    ELSE LET r == write_transcript_io(S, get_timestamp(now), participant_identity, new_message.text, fault)
         IN [S |-> r.S, raised |-> "StopResponse", logged_error |-> r.raised # "None"]

\* The record of one call: what the caller saw and what the call did.
TurnRecord(S, participant, new_message, fault, r) ==
    [participant |-> participant, text |-> new_message.text, fault |-> fault, raised |-> r.raised,
     logged_error |-> r.logged_error, appended |-> r.S.files # S.files]

IngestInit == InitStore

ingestFrame == <<config, now, thr, write_lock, supVars, repairVars>>

\* entrypoint, line 747: the files are opened.
IngestInitialize ==
    /\ ~initialized
    /\ Commit(initialize(State))
    /\ UNCHANGED <<ingestFrame, api_calls>>

\* A session reports a completed user turn, and the append meets the fault.
IngestTurn(participant, new_message, fault) ==
    /\ initialized
    /\ Len(api_calls) < MaxTurns
    /\ FaultApplies(State, fault)
    /\ ~IsEmptyTranscript(new_message) \/ fault = "none"
    /\ LET r == on_user_turn_completed_io(State, participant, new_message, fault)
       IN /\ Commit(r.S)
          /\ api_calls' = Append(api_calls, TurnRecord(State, participant, new_message, fault, r))
    /\ UNCHANGED ingestFrame

NextIngest ==
    \/ IngestInitialize
    \/ \E participant \in Participants, new_message \in Messages, fault \in IoFaults : IngestTurn(participant, new_message, fault)

SpecIngest == IngestInit /\ [][NextIngest]_vars

\* The calls whose append met an I/O error.
Failed(k) == api_calls[k].fault # "none"

\* C27: an append that meets an I/O error during utterance ingestion raises
\* the error to the caller of the ingestion, and the recording appends no
\* later record after it.
C27_IoErrorFatal ==
    \A k \in DOMAIN api_calls :
        Failed(k) =>
            /\ api_calls[k].raised = "OSError"
            /\ \A j \in DOMAIN api_calls : j > k => ~api_calls[j].appended

====
